---- MODULE Spec2Model ----
(***************************************************************************)
(* Model of the document-processing pipeline of core/document_processor.py *)
(* (content-hash cache over a SQLite store, text normalisation, chunking,  *)
(* embedding) and of utils/text_utils.py.                                  *)
(*                                                                         *)
(* Text is a sequence of one-character strings.                            *)
(***************************************************************************)
EXTENDS Integers, Sequences, FiniteSets, TLC

VARIABLES
    cleanIn,      \* text handed to clean_text
    cleanOut,     \* clean_text(cleanIn), once computed
    cleanTwice,   \* clean_text(cleanOut), once computed
    utilOut,      \* utils.text_utils.clean_text(cleanIn), once computed
    cleanPc,      \* position of the normalisation run
    docs,         \* rows of table documents as the shared connection sees them
    chunks,       \* rows of table chunks as the shared connection sees them
    durDocs,      \* rows of documents in the database file (last commit)
    durChunks,    \* rows of chunks in the database file (last commit)
    call,         \* per request context: the process_document call it runs
    loaded,       \* outcome of the load_cached_document call that has just returned
    ncalls,       \* number of process_document calls begun so far
    processed,    \* history: hashes some call has returned 'processed' for
    saved,        \* history: the arguments of every completed save_to_cache
    split,        \* a run of the text splitter: its input, call stack and result
    extraction,   \* a run of the text extraction: the file and what came of it
    engine,       \* the BasicRAGEngine object and the response of its last ask
    sumCall,      \* a call of the Summarizer: its input, the backend's replies, its result
    batch,        \* a run of the upload handler over the files selected
    auth          \* the userInfo collection and the signup and login requests in flight

cleanVars == <<cleanIn, cleanOut, cleanTwice, utilOut, cleanPc>>
storeVars == <<docs, chunks, durDocs, durChunks>>
procVars  == <<docs, chunks, durDocs, durChunks, call, loaded, ncalls, processed, saved>>
compVars  == <<split, extraction, engine, sumCall, batch, auth>>
vars == <<cleanVars, procVars, compVars>>

(***************************************************************************)
(* Characters.                                                             *)
(***************************************************************************)
NL == "\n"
SP == " "

\* \s of Python's re on str: blank, tab, newline, carriage return, ...
Whitespace == {SP, NL, "\t", "\r"}

\* \w of Python's re on str, as far as the model's alphabet goes
WordChars == {"a", "b", "c", "d", "A", "0", "_"}

\* the punctuation the character class of clean_text lists after \w\s (the
\* backquote, last of the class, has no TLA+ string and is left out)
AllowedPunct == {"-", ".", ",", "!", "?", ":", ";", "(", ")", "[", "]", "{", "}",
                 "\"", "'", "/", "\\", "@", "#", "$", "%", "^", "&", "*", "+",
                 "=", "<", ">", "~"}

IsSpace(c) == c \in Whitespace

IsAllowed(c) == c \in WordChars \/ c \in Whitespace \/ c \in AllowedPunct

(***************************************************************************)
(* clean_text, one re.sub per operator.                                    *)
(***************************************************************************)
RECURSIVE SkipSpaces(_)
\* the text after its leading run of whitespace
SkipSpaces(t) ==
    IF t = <<>> \/ ~IsSpace(Head(t)) THEN t ELSE SkipSpaces(Tail(t))

RECURSIVE CollapseWhitespace(_)
\* re.sub(r'\s+', ' ', text)
CollapseWhitespace(t) ==
    IF t = <<>> THEN <<>>
    ELSE IF IsSpace(Head(t)) THEN <<SP>> \o CollapseWhitespace(SkipSpaces(t))
    ELSE <<Head(t)>> \o CollapseWhitespace(Tail(t))

\* re.sub(r'[^\w\s\-\.\,...]', ' ', text)
ReplaceDisallowed(t) ==
    [i \in 1..Len(t) |-> IF IsAllowed(t[i]) THEN t[i] ELSE SP]

\* length of the leading run of whitespace of t
SpaceRunLen(t) == Len(t) - Len(SkipSpaces(t))

\* position of the last newline among the first n characters of t, 0 if none
LastNewline(t, n) ==
    LET S == {k \in 1..n : t[k] = NL}
    IN  IF S = {} THEN 0 ELSE CHOOSE k \in S : \A j \in S : j <= k

RECURSIVE NormalizeLineBreaks(_)
\* re.sub(r'\n\s*\n', '\n\n', text): at a newline, \s* is greedy and backtracks
\* to the last newline of the whitespace run that follows
NormalizeLineBreaks(t) ==
    IF t = <<>> THEN <<>>
    ELSE IF Head(t) = NL
         THEN LET rest == Tail(t)
                  k    == LastNewline(rest, SpaceRunLen(rest))
              IN  IF k > 0
                  THEN <<NL, NL>> \o NormalizeLineBreaks(SubSeq(rest, k + 1, Len(rest)))
                  ELSE <<NL>> \o NormalizeLineBreaks(rest)
         ELSE <<Head(t)>> \o NormalizeLineBreaks(Tail(t))

RECURSIVE RStrip(_)
RStrip(t) ==
    IF t = <<>> \/ ~IsSpace(t[Len(t)]) THEN t ELSE RStrip(SubSeq(t, 1, Len(t) - 1))

\* str.strip()
Strip(t) == RStrip(SkipSpaces(t))

\* DocumentProcessor.clean_text
CleanText(t) == Strip(NormalizeLineBreaks(ReplaceDisallowed(CollapseWhitespace(t))))

\* utils.text_utils.clean_text: the same pipeline behind an emptiness guard
UtilsCleanText(t) ==
    IF t = <<>> THEN <<>>
    ELSE Strip(NormalizeLineBreaks(ReplaceDisallowed(CollapseWhitespace(t))))

(***************************************************************************)
(* The chunker: RecursiveCharacterTextSplitter(chunk_size, chunk_overlap,   *)
(* length_function=len, separators) with the library defaults               *)
(* keep_separator=True and strip_whitespace=True.  DocumentProcessor        *)
(* configures it with the separators "\n\n", "\n", " ", "" and the sizes    *)
(* 1000 and 200 by default (scaled down here), Summarizer with its own.     *)
(* The operators take the sizes as size and overlap.                        *)
(***************************************************************************)
ChunkSize == 4
ChunkOverlap == 1

Separators == << <<NL, NL>>, <<NL>>, <<SP>>, <<>> >>

\* sep occurs in t at position i
OccursAt(t, sep, i) ==
    /\ i + Len(sep) - 1 <= Len(t)
    /\ \A j \in 1..Len(sep) : t[i + j - 1] = sep[j]

\* position of the first occurrence of the non-empty sep in t, 0 if none
FirstOccurrence(t, sep) ==
    LET S == {i \in 1..Len(t) : OccursAt(t, sep, i)}
    IN  IF S = {} THEN 0 ELSE CHOOSE i \in S : \A j \in S : i <= j

RECURSIVE SplitOn(_, _)
\* the pieces of t between the occurrences of the non-empty sep (str.split)
SplitOn(t, sep) ==
    LET i == FirstOccurrence(t, sep)
    IN  IF i = 0 THEN <<t>>
        ELSE <<SubSeq(t, 1, i - 1)>> \o SplitOn(SubSeq(t, i + Len(sep), Len(t)), sep)

\* _split_text_with_regex(text, separator, keep_separator=True): every piece but
\* the first keeps the separator in front of it; empty pieces are dropped
SplitKeep(t, sep) ==
    LET pieces == IF sep = <<>> THEN [i \in 1..Len(t) |-> <<t[i]>>]
                  ELSE LET raw == SplitOn(t, sep)
                       IN  [i \in 1..Len(raw) |-> IF i = 1 THEN raw[1] ELSE sep \o raw[i]]
    IN  SelectSeq(pieces, LAMBDA x : x # <<>>)

RECURSIVE Concat(_)
\* "".join(docs)
Concat(ss) == IF ss = <<>> THEN <<>> ELSE Head(ss) \o Concat(Tail(ss))

\* _join_docs without the check that drops an empty text
JoinDocsKeepEmpty(current) == <<Strip(Concat(current))>>

\* _join_docs: the joined, stripped text as a list of zero or one chunk
JoinDocs(current) ==
    LET text == Strip(Concat(current))
    IN  IF text = <<>> THEN <<>> ELSE <<text>>

RECURSIVE Shrink(_, _, _, _, _)
\* the while loop of _merge_splits: drop pieces from the front of the window
\* until it is within the overlap and the next piece of length n fits
Shrink(current, total, n, size, overlap) ==
    IF total > overlap \/ (total + n > size /\ total > 0)
    THEN Shrink(Tail(current), total - Len(Head(current)), n, size, overlap)
    ELSE [current |-> current, total |-> total]

RECURSIVE MergeLoop(_, _, _, _, _, _)
\* _merge_splits(splits, ""): pack the pieces into chunks of at most size
\* characters, each starting with the overlap kept from the last
MergeLoop(splits, current, total, out, size, overlap) ==
    IF splits = <<>> THEN out \o JoinDocs(current)
    ELSE LET d    == Head(splits)
             full == total + Len(d) > size /\ Len(current) > 0
             kept == IF full THEN Shrink(current, total, Len(d), size, overlap)
                     ELSE [current |-> current, total |-> total]
         IN  MergeLoop(Tail(splits), Append(kept.current, d), kept.total + Len(d),
                       IF full THEN out \o JoinDocs(current) ELSE out, size, overlap)

MergeSplits(splits, size, overlap) == MergeLoop(splits, <<>>, 0, <<>>, size, overlap)

\* index of the first separator that is empty or occurs in t
PickSeparator(t, seps) ==
    CHOOSE i \in 1..Len(seps) :
        /\ seps[i] = <<>> \/ FirstOccurrence(t, seps[i]) > 0
        /\ \A j \in 1..(i - 1) : seps[j] # <<>> /\ FirstOccurrence(t, seps[j]) = 0

RECURSIVE SplitRec(_, _, _, _)
RECURSIVE SplitLoop(_, _, _, _, _, _)
\* the loop of _split_text over the pieces: short pieces are collected and
\* merged, a piece of size or more is split on the finer separators
SplitLoop(splits, good, final, newSeps, size, overlap) ==
    IF splits = <<>>
    THEN IF good # <<>> THEN final \o MergeSplits(good, size, overlap) ELSE final
    ELSE LET s == Head(splits)
         IN  IF Len(s) < size
             THEN SplitLoop(Tail(splits), Append(good, s), final, newSeps, size, overlap)
             ELSE LET flushed == IF good # <<>>
                                 THEN final \o MergeSplits(good, size, overlap) ELSE final
                      finer   == IF newSeps = <<>> THEN <<s>>
                                 ELSE SplitRec(s, newSeps, size, overlap)
                  IN  SplitLoop(Tail(splits), <<>>, flushed \o finer, newSeps, size, overlap)

\* RecursiveCharacterTextSplitter._split_text(text, separators)
SplitRec(t, seps, size, overlap) ==
    LET i       == PickSeparator(t, seps)
        newSeps == IF seps[i] = <<>> THEN <<>> ELSE SubSeq(seps, i + 1, Len(seps))
    IN  SplitLoop(SplitKeep(t, seps[i]), <<>>, <<>>, newSeps, size, overlap)

\* text_splitter.split_text(text) of DocumentProcessor
SplitText(t) == SplitRec(t, Separators, ChunkSize, ChunkOverlap)

(***************************************************************************)
(* Files, hashing and embedding.                                           *)
(***************************************************************************)
None == <<"none">>

\* the characters of the model, in a fixed order that gives each its code
Alphabet == <<"a", "b", "c", "d", SP, NL, "|", ".">>

CharCode(c) == CHOOSE i \in 1..Len(Alphabet) : Alphabet[i] = c

HashBase == 16

RECURSIVE Digest(_, _)
Digest(b, h) == IF b = <<>> THEN h ELSE Digest(Tail(b), h * HashBase + CharCode(Head(b)))

\* get_file_hash: a digest of the bytes alone, free of collisions on the
\* contents of the model (as SHA-256 is taken to be)
FileHash(content) == Digest(content, 1)

\* supported_formats with one extension too many
SupportedFormatsAndExe == {".pdf", ".docx", ".txt", ".md", ".rtf", ".exe"}

\* self.supported_formats
SupportedFormats == {".pdf", ".docx", ".txt", ".md", ".rtf"}

(***************************************************************************)
(* Extraction.  A file's bytes are numbers 0..255 and extracted text is a  *)
(* sequence of code points.  The decoders are those of open(path, 'r',      *)
(* encoding=...).read(): the incremental decoder fed the whole file.  No    *)
(* byte of the model is a carriage return, so the newline translation of    *)
(* text mode changes nothing.  A decoding yields [raised, text]: the text  *)
(* read with raised = "", or the name of the exception raised.             *)
(***************************************************************************)
RECURSIVE DecodeUtf8(_)
\* encoding='utf-8': one to four bytes a code point, shortest form only
DecodeUtf8(b) ==
    IF b = <<>> THEN [raised |-> "", text |-> <<>>]
    ELSE LET b1 == b[1]
             n  == IF b1 < 128 THEN 1
                   ELSE IF b1 \in 194..223 THEN 2
                   ELSE IF b1 \in 224..239 THEN 3
                   ELSE IF b1 \in 240..244 THEN 4 ELSE 0
             valid == /\ n > 0
                      /\ n <= Len(b)
                      /\ \A k \in 2..n : b[k] \in 128..191
                      /\ b1 = 224 => b[2] >= 160
                      /\ b1 = 237 => b[2] <= 159
                      /\ b1 = 240 => b[2] >= 144
                      /\ b1 = 244 => b[2] <= 143
             cp == CASE n = 1 -> b1
                     [] n = 2 -> (b1 - 192) * 64 + (b[2] - 128)
                     [] n = 3 -> (b1 - 224) * 4096 + (b[2] - 128) * 64 + (b[3] - 128)
                     [] n = 4 -> (b1 - 240) * 262144 + (b[2] - 128) * 4096
                                     + (b[3] - 128) * 64 + (b[4] - 128)
         IN  IF ~valid THEN [raised |-> "UnicodeDecodeError", text |-> <<>>]
             ELSE LET rest == DecodeUtf8(SubSeq(b, n + 1, Len(b)))
                  IN  IF rest.raised # "" THEN rest ELSE [raised |-> "", text |-> <<cp>> \o rest.text]

RECURSIVE DecodeUnits(_)
\* the code points of UTF-16 code units: a high surrogate takes the low
\* surrogate after it, a surrogate on its own is illegal
DecodeUnits(u) ==
    IF u = <<>> THEN [raised |-> "", text |-> <<>>]
    ELSE LET pair == /\ u[1] \in 55296..56319
                     /\ Len(u) >= 2
                     /\ u[2] \in 56320..57343
             n    == IF pair THEN 2 ELSE 1
             cp   == IF pair THEN 65536 + (u[1] - 55296) * 1024 + (u[2] - 56320) ELSE u[1]
         IN  IF ~pair /\ u[1] \in 55296..57343 THEN [raised |-> "UnicodeDecodeError", text |-> <<>>]
             ELSE LET rest == DecodeUnits(SubSeq(u, n + 1, Len(u)))
                  IN  IF rest.raised # "" THEN rest ELSE [raised |-> "", text |-> <<cp>> \o rest.text]

\* encoding='utf-16': the byte order mark gives the byte order; the decoder
\* of a file refuses a stream of two bytes or more that has none with
\* UnicodeError("UTF-16 stream does not start with BOM"), which is no
\* UnicodeDecodeError
DecodeUtf16(b) ==
    LET little == Len(b) >= 2 /\ b[1] = 255 /\ b[2] = 254
        big    == Len(b) >= 2 /\ b[1] = 254 /\ b[2] = 255
        body   == IF little \/ big THEN SubSeq(b, 3, Len(b)) ELSE b
        units  == [k \in 1..(Len(body) \div 2) |->
                      IF big THEN 256 * body[2 * k - 1] + body[2 * k]
                      ELSE body[2 * k - 1] + 256 * body[2 * k]]
    IN  IF Len(body) % 2 = 1 \/ DecodeUnits(units).raised # ""
        THEN [raised |-> "UnicodeDecodeError", text |-> <<>>]
        ELSE IF ~little /\ ~big /\ Len(b) >= 2 THEN [raised |-> "UnicodeError", text |-> <<>>]
        ELSE DecodeUnits(units)

\* encoding='cp1252': high lists the code points of the bytes 128..159, -1
\* where the code page defines none
DecodeCp1252(b) ==
    LET high  == <<8364, -1, 8218, 402, 8222, 8230, 8224, 8225, 710, 8240, 352, 8249, 338,
                   -1, 381, -1, -1, 8216, 8217, 8220, 8221, 8226, 8211, 8212, 732, 8482,
                   353, 8250, 339, -1, 382, 376>>
        cp(x) == IF x \in 128..159 THEN high[x - 127] ELSE x
    IN  IF \E k \in 1..Len(b) : cp(b[k]) = -1
        THEN [raised |-> "UnicodeDecodeError", text |-> <<>>]
        ELSE [raised |-> "", text |-> [k \in 1..Len(b) |-> cp(b[k])]]

\* file.read() of a file opened with the encoding (latin-1: every byte is
\* its own code point)
Decode(encoding, b) ==
    CASE encoding = "utf-8"   -> DecodeUtf8(b)
      [] encoding = "utf-16"  -> DecodeUtf16(b)
      [] encoding = "latin-1" -> [raised |-> "", text |-> b]
      [] encoding = "cp1252"  -> DecodeCp1252(b)

Encodings == <<"utf-8", "utf-16", "latin-1", "cp1252">>

RECURSIVE TryEncodings(_, _)
\* the loop of extract_text_from_txt from encoding number i on: the first
\* text read wins, UnicodeDecodeError goes on to the next encoding, and any
\* other exception ends in the outer handler, which returns "" like the end
\* of the list does
TryEncodings(b, i) ==
    IF i > Len(Encodings) THEN [text |-> <<>>, encoding |-> ""]
    ELSE LET d == Decode(Encodings[i], b)
         IN  IF d.raised = "" THEN [text |-> d.text, encoding |-> Encodings[i]]
             ELSE IF d.raised = "UnicodeDecodeError" THEN TryEncodings(b, i + 1)
             ELSE [text |-> <<>>, encoding |-> ""]

\* extract_text_from_txt: the text and metadata['encoding']
ExtractTextFromTxt(b) == TryEncodings(b, 1)

\* "\n--- Page n ---\n", for n below ten
PageHeader(n) == <<10, 45, 45, 45, 32, 80, 97, 103, 101, 32, 48 + n, 32, 45, 45, 45, 10>>

\* the loop over the pages of either PDF library once no page raises
PagesText(pages) == Concat([n \in 1..Len(pages) |-> PageHeader(n) \o pages[n].text])

\* _extract_pdf_fallback: PyPDF2 over all pages inside one try
ExtractPdfFallback(pages) ==
    IF \E n \in 1..Len(pages) : pages[n].pypdf = "raises" THEN <<>> ELSE PagesText(pages)

\* extract_text_from_pdf: PyMuPDF over all pages inside one try, the
\* fallback on any exception
ExtractTextFromPdf(pages) ==
    IF \E n \in 1..Len(pages) : pages[n].fitz = "raises"
    THEN ExtractPdfFallback(pages)
    ELSE PagesText(pages)

\* lines 440-451 of process_document on a file of bytes and pages: the text
\* of the extractor its extension picks, or the ValueError raised
ExtractDocument(f) ==
    LET txt  == ExtractTextFromTxt(f.bytes)
        text == CASE f.ext = ".pdf" -> ExtractTextFromPdf(f.pages)
                  [] f.ext \in {".txt", ".md"} -> txt.text
                  [] OTHER -> <<>>
    IN  IF f.ext \notin {".pdf", ".docx", ".txt", ".md"}
        THEN [text |-> <<>>, encoding |-> "", error |-> "ValueError: Extraction not implemented"]
        ELSE IF text = <<>>
        THEN [text |-> <<>>, encoding |-> "", error |-> "ValueError: No text could be extracted"]
        ELSE [text |-> text, encoding |-> IF f.ext = ".pdf" THEN "" ELSE txt.encoding,
              error |-> ""]

\* the ASCII code of a character of the model
Ord(c) ==
    CASE c = "a" -> 97 [] c = "b" -> 98 [] c = "c" -> 99 [] c = "d" -> 100
      [] c = SP -> 32 [] c = NL -> 10 [] c = "|" -> 124 [] c = "." -> 46

Chr(n) == Alphabet[CHOOSE i \in 1..Len(Alphabet) : Ord(Alphabet[i]) = n]

\* the extractor process_document picks by extension, on an upload whose
\* content is ASCII; .pdf and .docx go to PyMuPDF and python-docx, and no
\* upload of the processing runs has these formats
ExtractText(f) ==
    CASE f.ext \in {".txt", ".md"} ->
        LET t == ExtractTextFromTxt([i \in 1..Len(f.content) |-> Ord(f.content[i])]).text
        IN  [i \in 1..Len(t) |-> Chr(t[i])]

EmbedDim == 2

RECURSIVE CharSum(_)
CharSum(t) == IF t = <<>> THEN 0 ELSE CharCode(Head(t)) + CharSum(Tail(t))

\* embedding_model.encode on one text: a vector of EmbedDim float32 values,
\* each given by its 32-bit pattern; a fixed function of the text
Encode(t) == [k \in 1..EmbedDim |-> Len(t) + 256 * CharSum(t) + 65536 * k]

\* generate_embeddings: one vector per chunk, in chunk order (an empty array
\* for no chunks)
GenerateEmbeddings(cs) == [i \in 1..Len(cs) |-> Encode(cs[i])]

Float32Bytes == 4

\* the little-endian bytes of one float32 bit pattern
ValueBytes(v) == [j \in 1..Float32Bytes |-> (v \div (256 ^ (j - 1))) % 256]

RECURSIVE ToBytes(_)
\* ndarray.tobytes() of a float32 vector
ToBytes(e) == IF e = <<>> THEN <<>> ELSE ValueBytes(Head(e)) \o ToBytes(Tail(e))

RECURSIVE BytesValue(_)
BytesValue(bs) == IF bs = <<>> THEN 0 ELSE Head(bs) + 256 * BytesValue(Tail(bs))

\* np.frombuffer(blob, dtype=np.float16): the wrong width, 2 bytes a value
FromBufferFloat16(blob) ==
    [k \in 1..(Len(blob) \div 2) |-> BytesValue(SubSeq(blob, (k - 1) * 2 + 1, k * 2))]

\* np.frombuffer(blob, dtype=np.float32)
FromBuffer(blob) ==
    [k \in 1..(Len(blob) \div Float32Bytes) |->
        BytesValue(SubSeq(blob, (k - 1) * Float32Bytes + 1, k * Float32Bytes))]

(***************************************************************************)
(* The store: tables documents and chunks behind the one sqlite3           *)
(* connection that every request context shares (check_same_thread=False). *)
(* Statements of all contexts run in the connection's one open             *)
(* transaction: each sees the rows the others have inserted, and commit()  *)
(* writes all of them to the database file.  One execute() is atomic.      *)
(***************************************************************************)
\* is_document_cached with the lookup on the wrong column (WHERE id = ?)
IsDocumentCachedById(h) == \E i \in 1..Len(docs) : docs[i].id = h

\* is_document_cached: SELECT id FROM documents WHERE file_hash = ?
IsDocumentCached(h) == \E i \in 1..Len(docs) : docs[i].file_hash = h

\* table documents declared without UNIQUE on file_hash
UniqueViolationNever(h) == FALSE

\* a uniqueness check that sees the committed rows only
UniqueViolationCommitted(h) == \E i \in 1..Len(durDocs) : durDocs[i].file_hash = h

\* the UNIQUE constraint on documents.file_hash
UniqueViolation(h) == \E i \in 1..Len(docs) : docs[i].file_hash = h

\* INTEGER PRIMARY KEY AUTOINCREMENT: one more than the largest id given so far
\* (no row is ever deleted before its successors, so that is the last row's)
NextRowId(table) == IF table = <<>> THEN 1 ELSE table[Len(table)].id + 1

RECURSIVE SumLen(_)
\* sum(len(chunk.page_content) for chunk in chunks)
SumLen(cs) == IF cs = <<>> THEN 0 ELSE Len(Head(cs)) + SumLen(Tail(cs))

\* the row that save_to_cache's INSERT INTO documents adds (processed_at, the
\* wall clock at the insert, is left out: no statement that runs reads it)
DocumentRow(id, c) ==
    [id           |-> id,
     filename     |-> c.file.name,
     file_hash    |-> c.hash,
     file_size    |-> Len(c.file.content),
     file_type    |-> c.file.ext,
     total_chunks |-> Len(c.chunks),
     total_chars  |-> SumLen(c.chunks),
     language     |-> "unknown",
     summary      |-> ""]

\* the row that save_to_cache's INSERT INTO chunks adds for chunk number i
\* (0-based) of its loop over zip(chunks, embeddings)
ChunkRow(id, c, i) ==
    [id               |-> id,
     document_id      |-> c.docId,
     chunk_index      |-> i,
     chunk_text       |-> c.chunks[i + 1],
     chunk_length     |-> Len(c.chunks[i + 1]),
     embedding_vector |-> ToBytes(c.embeddings[i + 1])]

\* number of (chunk, embedding) pairs zip yields
ZipLen(c) == IF Len(c.chunks) <= Len(c.embeddings) THEN Len(c.chunks) ELSE Len(c.embeddings)

(***************************************************************************)
(* process_document, one action per statement that touches the store; the  *)
(* local computation between the cache check and the save is one step.     *)
(***************************************************************************)
Threads == {"t1", "t2"}

\* calls begun in one behaviour
MaxCalls == 3

OneChunk  == <<"a", "b">>
TwoChunks == <<"a", "b", SP, "c", "d", "a">>
Blank     == <<SP, "|">>          \* cleans to the empty string
Empty     == <<>>                 \* nothing to extract

Contents == {OneChunk, TwoChunks, Blank, Empty}

File(b, n, e) == [content |-> b, name |-> n, ext |-> e]

\* the uploads of the model: every content as a text file, and one content
\* also under a second name, once with a supported extension that has no
\* extractor and once with an extension outside the supported set
Files == { File(OneChunk, "x", ".txt"), File(OneChunk, "y", ".rtf"),
           File(OneChunk, "y", ".exe"), File(TwoChunks, "x", ".txt"),
           File(Blank, "x", ".txt"), File(Empty, "x", ".txt") }

NoFile == [content |-> <<>>, name |-> "", ext |-> ""]

NoResult == [status |-> "none", error |-> "", file_hash |-> 0, document_id |-> 0,
             chunks_count |-> 0]

\* no load_cached_document call has just returned
NoLoad == [status |-> "none", error |-> "", file_hash |-> 0, chunks |-> <<>>,
           embeddings |-> <<>>, total_chunks |-> 0, total_chars |-> 0]

IdleCall == [pc |-> "idle", file |-> NoFile, hash |-> 0, chunks |-> <<>>,
             embeddings |-> <<>>, docId |-> 0, i |-> 0, after |-> FALSE,
             added |-> 0, result |-> NoResult]

\* the call is over: its locals are gone, its file and outcome stay on record
Finish(c, pc, result) ==
    [IdleCall EXCEPT !.pc = pc, !.file = c.file, !.hash = c.hash, !.after = c.after,
                     !.added = c.added, !.result = result]

Raise(c, err) ==
    Finish(c, "returned", [NoResult EXCEPT !.status = "error", !.error = err])

StoreEmpty ==
    /\ docs = <<>>
    /\ chunks = <<>>
    /\ durDocs = <<>>
    /\ durChunks = <<>>
    /\ call = [t \in Threads |-> IdleCall]
    /\ loaded = NoLoad
    /\ ncalls = 0
    /\ processed = {}
    /\ saved = {}

\* lines 419-433: format check, then the hash of the file's bytes
Begin(t, f) ==
    /\ call[t].pc \in {"idle", "returned", "failed"}
    /\ ncalls < MaxCalls
    /\ ncalls' = ncalls + 1
    /\ call' = [call EXCEPT ![t] =
          LET c == [IdleCall EXCEPT !.file = f, !.after = FileHash(f.content) \in processed]
          IN  IF f.ext \notin SupportedFormats
              THEN Raise(c, "ValueError: Unsupported file format")
              ELSE [c EXCEPT !.pc = "check", !.hash = FileHash(f.content)]]
    /\ loaded' = NoLoad
    /\ UNCHANGED <<storeVars, processed, saved, cleanVars, compVars>>

\* lines 435-438: the cache check
CheckCache(t) ==
    /\ call[t].pc = "check"
    /\ call' = [call EXCEPT ![t] =
          IF IsDocumentCached(@.hash)
          THEN Finish(@, "returned",
                      [NoResult EXCEPT !.status = "cached", !.file_hash = call[t].hash])
          ELSE [@ EXCEPT !.pc = "extract"]]
    /\ loaded' = NoLoad
    /\ UNCHANGED <<storeVars, ncalls, processed, saved, cleanVars, compVars>>

\* lines 440-470: extraction by extension, emptiness check, clean_text,
\* create_intelligent_chunks and generate_embeddings
Compute(t) ==
    /\ call[t].pc = "extract"
    /\ call' = [call EXCEPT ![t] =
          IF @.file.ext \notin {".pdf", ".docx", ".txt", ".md"}
          THEN Raise(@, "ValueError: Extraction not implemented")
          ELSE LET text == ExtractText(@.file)
                   cs   == SplitText(CleanText(text))
               IN  IF text = <<>>
                   THEN Raise(@, "ValueError: No text could be extracted")
                   ELSE [@ EXCEPT !.pc = "insert_doc", !.chunks = cs,
                                  !.embeddings = GenerateEmbeddings(cs)]]
    /\ loaded' = NoLoad
    /\ UNCHANGED <<storeVars, ncalls, processed, saved, cleanVars, compVars>>

\* lines 371-388: INSERT INTO documents; cursor.lastrowid is the new row's id
InsertDocument(t) ==
    /\ call[t].pc = "insert_doc"
    /\ IF UniqueViolation(call[t].hash)
       THEN /\ call' = [call EXCEPT ![t] =
                   Raise(@, "IntegrityError: UNIQUE constraint failed: documents.file_hash")]
            /\ docs' = docs
       ELSE /\ docs' = Append(docs, DocumentRow(NextRowId(docs), call[t]))
            /\ call' = [call EXCEPT ![t] =
                   [@ EXCEPT !.pc = "insert_chunk", !.docId = NextRowId(docs), !.i = 0,
                             !.added = @ + 1]]
    /\ loaded' = NoLoad
    /\ UNCHANGED <<chunks, durDocs, durChunks, ncalls, processed, saved, cleanVars, compVars>>

\* lines 390-402: one INSERT INTO chunks of the loop
InsertChunk(t) ==
    /\ call[t].pc = "insert_chunk"
    /\ call[t].i < ZipLen(call[t])
    /\ chunks' = Append(chunks, ChunkRow(NextRowId(chunks), call[t], call[t].i))
    /\ call' = [call EXCEPT ![t] = [@ EXCEPT !.i = @ + 1, !.added = @ + 1]]
    /\ loaded' = NoLoad
    /\ UNCHANGED <<docs, durDocs, durChunks, ncalls, processed, saved, cleanVars, compVars>>

\* a commit that leaves only the rows of this call in the store
CommitOwnRows(t) ==
    /\ call[t].pc = "insert_chunk"
    /\ call[t].i >= ZipLen(call[t])
    /\ docs' = SelectSeq(docs, LAMBDA r : r.id = call[t].docId)
    /\ chunks' = SelectSeq(chunks, LAMBDA r : r.document_id = call[t].docId)
    /\ durDocs' = docs'
    /\ durChunks' = chunks'
    /\ call' = [call EXCEPT ![t] =
          Finish(@, "returned", [NoResult EXCEPT !.status = "processed",
                                                 !.file_hash = call[t].hash,
                                                 !.document_id = call[t].docId,
                                                 !.chunks_count = Len(call[t].chunks)])]
    /\ processed' = processed \cup {call[t].hash}
    /\ saved' = saved \cup {[hash |-> call[t].hash, chunks |-> call[t].chunks,
                              embeddings |-> call[t].embeddings]}
    /\ loaded' = NoLoad
    /\ UNCHANGED <<ncalls, cleanVars, compVars>>

\* lines 404-406 and 478-486: conn.commit() after the loop, and the result
Commit(t) ==
    /\ call[t].pc = "insert_chunk"
    /\ call[t].i >= ZipLen(call[t])
    /\ durDocs' = docs
    /\ durChunks' = chunks
    /\ call' = [call EXCEPT ![t] =
          Finish(@, "returned", [NoResult EXCEPT !.status = "processed",
                                                 !.file_hash = call[t].hash,
                                                 !.document_id = call[t].docId,
                                                 !.chunks_count = Len(call[t].chunks)])]
    /\ processed' = processed \cup {call[t].hash}
    /\ saved' = saved \cup {[hash |-> call[t].hash, chunks |-> call[t].chunks,
                              embeddings |-> call[t].embeddings]}
    /\ loaded' = NoLoad
    /\ UNCHANGED <<docs, chunks, ncalls, cleanVars, compVars>>

\* the call stops between two of its steps: an exception of the step ahead
\* (save_to_cache and process_document catch nothing and roll nothing back)
\* or the caller abandoning it
Abandon(t) ==
    /\ call[t].pc \in {"check", "extract", "insert_doc", "insert_chunk"}
    /\ call' = [call EXCEPT ![t] = Finish(@, "failed", NoResult)]
    /\ loaded' = NoLoad
    /\ UNCHANGED <<storeVars, ncalls, processed, saved, cleanVars, compVars>>

(***************************************************************************)
(* load_cached_document.                                                   *)
(***************************************************************************)
\* the lookup of load_cached_document on the committed rows only, as a second
\* connection would see them
FindDocumentCommitted(h) ==
    LET S == {i \in 1..Len(durDocs) : durDocs[i].file_hash = h}
    IN  IF S = {} THEN <<>> ELSE <<durDocs[CHOOSE i \in S : \A j \in S : i <= j]>>

\* SELECT * FROM documents WHERE file_hash = ? ... fetchone(): the first row
\* with the hash as a one-row list, the empty list for Python's None
FindDocument(h) ==
    LET S == {i \in 1..Len(docs) : docs[i].file_hash = h}
    IN  IF S = {} THEN <<>> ELSE <<docs[CHOOSE i \in S : \A j \in S : i <= j]>>

RECURSIVE SortByIndex(_)
\* ORDER BY chunk_index: the rows by ascending index, insertion order on ties
SortByIndex(rows) ==
    IF rows = <<>> THEN <<>>
    ELSE LET k == CHOOSE i \in 1..Len(rows) :
                      /\ \A j \in 1..Len(rows) : rows[i].chunk_index <= rows[j].chunk_index
                      /\ \A j \in 1..(i - 1) : rows[j].chunk_index > rows[i].chunk_index
         IN  <<rows[k]>> \o SortByIndex(SubSeq(rows, 1, k - 1) \o SubSeq(rows, k + 1, Len(rows)))

\* SELECT chunk_text, embedding_vector FROM chunks WHERE document_id = ?
\* ORDER BY chunk_index
ChunkRowsOf(id) == SortByIndex(SelectSeq(chunks, LAMBDA r : r.document_id = id))

\* the outcome of load_cached_document(h): the ValueError, or the result dict
LoadCachedDocument(h) ==
    LET found == FindDocument(h)
    IN  IF found = <<>>
        THEN [NoLoad EXCEPT !.status = "error",
                            !.error = "ValueError: Document not found in cache",
                            !.file_hash = h]
        ELSE LET doc_row == found[1]
                 rows    == ChunkRowsOf(doc_row.id)
             IN  [status |-> "loaded", error |-> "",
                  file_hash |-> doc_row.file_hash,
                  chunks |-> [i \in 1..Len(rows) |-> rows[i].chunk_text],
                  embeddings |-> [i \in 1..Len(rows) |-> FromBuffer(rows[i].embedding_vector)],
                  total_chunks |-> doc_row.total_chunks,
                  total_chars |-> doc_row.total_chars]

\* the hashes a caller asks for
Hashes == {FileHash(OneChunk), FileHash(TwoChunks)}

Load(h) ==
    /\ loaded' = LoadCachedDocument(h)
    /\ UNCHANGED <<storeVars, call, ncalls, processed, saved, cleanVars, compVars>>

(***************************************************************************)
(* get_processing_stats and cleanup_cache.  A value read from SQL is       *)
(* [null, value]: SUM and AVG over no rows are NULL, Python's None.  The   *)
(* average is in hundredths, as round(avg, 2) leaves it.                   *)
(***************************************************************************)
\* get_processing_stats(): COUNT(*), SUM(total_chunks), SUM(total_chars) and
\* AVG(total_chunks) over the documents table as the connection sees it
ProcessingStats ==
    LET sum(col) == LET s[i \in 0..Len(docs)] == IF i = 0 THEN 0 ELSE s[i - 1] + docs[i][col]
                    IN  s[Len(docs)]
        total    == sum("total_chunks")
    IN  [status |-> "stats", error |-> "",
         total_documents |-> Len(docs),
         total_chunks |-> [null |-> docs = <<>>, value |-> total],
         total_characters |-> [null |-> docs = <<>>, value |-> sum("total_chars")],
         average_chunks_per_document |->
             IF docs = <<>> \/ total = 0 THEN 0
             ELSE (200 * total + Len(docs)) \div (2 * Len(docs))]

Stats ==
    /\ loaded' = ProcessingStats
    /\ UNCHANGED <<storeVars, call, ncalls, processed, saved, cleanVars, compVars>>

\* the names bound in the module of the processor: its imports, its logger
\* and its class
GlobalNames ==
    {"os", "re", "logging", "hashlib", "List", "Dict", "Tuple", "Optional", "Path",
     "sqlite3", "datetime", "PyPDF2", "Document", "fitz", "BeautifulSoup",
     "RecursiveCharacterTextSplitter", "LangChainDocument", "BaseDocument",
     "SentenceTransformer", "np", "logger", "DocumentProcessor"}

\* cleanup_cache(days_old): its first statement reads the name timedelta,
\* which nothing binds, and raises before any statement touches the store
CleanupCache ==
    /\ "timedelta" \notin GlobalNames
    /\ loaded' = [status |-> "cleanup",
                  error |-> "NameError: name 'timedelta' is not defined"]
    /\ UNCHANGED <<storeVars, call, ncalls, processed, saved, cleanVars, compVars>>

Next ==
    \/ \E t \in Threads, f \in Files : Begin(t, f)
    \/ \E t \in Threads : CheckCache(t)
    \/ \E t \in Threads : Compute(t)
    \/ \E t \in Threads : InsertDocument(t)
    \/ \E t \in Threads : InsertChunk(t)
    \/ \E t \in Threads : Commit(t)
    \/ \E t \in Threads : Abandon(t)
    \/ \E h \in Hashes : Load(h)

(***************************************************************************)
(* The other components at rest: no splitter run, no extraction, no        *)
(* summarizer call and no upload under way, and the engine as its           *)
(* constructor leaves it.                                                   *)
(***************************************************************************)
NoSplit == [text |-> <<>>, overlap |-> 0, stack |-> <<>>, result |-> <<>>, pc |-> "idle"]

NoExtraction ==
    [file |-> [ext |-> "", bytes |-> <<>>, pages |-> <<>>], text |-> <<>>,
     encoding |-> "", error |-> "", pc |-> "idle"]

\* no ask yet of the engine as it is built now
NoAsk == [called |-> FALSE, failure |-> "", retrieved |-> <<>>, raised |-> "",
          answer |-> "", sources |-> <<>>, timestamp |-> 0]

\* BasicRAGEngine.__init__: no vector store, no chain, no query counted; now is
\* the wall clock, asks the number of calls of ask so far and stats what
\* get_stats returned last
NewEngine ==
    [vector_store |-> [built |-> FALSE, docs |-> <<>>],
     chain        |-> [built |-> FALSE, docs |-> <<>>],
     total_queries |-> 0, now |-> 0, last |-> NoAsk, asks |-> 0,
     stats |-> [called |-> FALSE, total_queries |-> 0, vector_store_size |-> 0]]

NoSumCall ==
    [op |-> "", text |-> <<>>, responses |-> <<>>, summary |-> <<>>,
     report |-> [overall_summary |-> <<>>, sections |-> <<>>, total_sections |-> 0],
     detected |-> <<>>, pc |-> "idle"]

NoBatch ==
    [files |-> <<>>, returned |-> 0, processed_data |-> {}, all_chunks |-> <<>>,
     metadatas |-> <<>>, error |-> "",
     session |-> [rag_engine |-> [built |-> FALSE, chunks |-> <<>>, metadatas |-> <<>>],
                 processed_texts |-> {}, documents_processed |-> FALSE],
     pc |-> "idle"]

\* the requests the server works on at a time: the endpoints are plain
\* functions, which the framework runs on the threads of a pool
Requests == {"r1", "r2"}

\* a request slot no request has used
NoRequest == [op |-> "", pc |-> "idle", seq |-> 0, username |-> "", email |-> "",
              password |-> <<>>,
              response |-> [status_code |-> 0, detail |-> "", message |-> "",
                            user_data |-> [user_id |-> "", username |-> "", email |-> ""]]]

\* the empty userInfo collection, no request yet
NoAuth == [userInfo |-> <<>>, request |-> [r \in Requests |-> NoRequest],
           total |-> 0, signups |-> {}]

AtRest(v) ==
    /\ "auth" \in v \/ auth = NoAuth
    /\ "split" \in v \/ split = NoSplit
    /\ "extraction" \in v \/ extraction = NoExtraction
    /\ "engine" \in v \/ engine = NewEngine
    /\ "sumCall" \in v \/ sumCall = NoSumCall
    /\ "batch" \in v \/ batch = NoBatch

(***************************************************************************)
(* Normalisation runs: clean_text applied to every short text, then again  *)
(* to its own output.                                                      *)
(***************************************************************************)
MaxLen == 5

\* a word character, a blank, a newline, a character outside the allow list
\* and an allowed punctuation mark
CleanAlphabet == {"a", SP, NL, "|", "."}

TextsUpTo(n) == UNION {[1..k -> CleanAlphabet] : k \in 0..n}

CleanIdle ==
    /\ cleanIn = <<>>
    /\ cleanOut = None
    /\ cleanTwice = None
    /\ utilOut = None
    /\ cleanPc = "input"

InitClean ==
    /\ cleanIn \in TextsUpTo(MaxLen)
    /\ cleanOut = None
    /\ cleanTwice = None
    /\ utilOut = None
    /\ cleanPc = "input"
    /\ StoreEmpty
    /\ AtRest({})

ApplyClean ==
    /\ cleanPc = "input"
    /\ cleanOut' = CleanText(cleanIn)
    /\ utilOut' = UtilsCleanText(cleanIn)
    /\ cleanPc' = "cleaned"
    /\ UNCHANGED <<cleanIn, cleanTwice, procVars, compVars>>

ApplyCleanAgain ==
    /\ cleanPc = "cleaned"
    /\ cleanTwice' = CleanText(cleanOut)
    /\ cleanPc' = "recleaned"
    /\ UNCHANGED <<cleanIn, cleanOut, utilOut, procVars, compVars>>

NextClean == ApplyClean \/ ApplyCleanAgain

SpecClean == InitClean /\ [][NextClean]_vars

(***************************************************************************)
(* Splitter runs: create_intelligent_chunks on every text a little longer  *)
(* than the chunk size, for every overlap the constructor is given.  One   *)
(* step is one iteration of the loop of _split_text over its pieces; a     *)
(* call of _split_text on a long piece is a new frame on the stack.        *)
(***************************************************************************)
\* how much longer than the chunk size the texts get
SplitExtra == 2

\* the texts of a word character and the two characters the separators are
\* made of
SplitTexts ==
    UNION {[1..k -> {"a", SP, NL}] : k \in (ChunkSize + 1)..(ChunkSize + SplitExtra)}

\* the locals of a call _split_text(t, seps) when its loop starts
SplitFrame(t, seps) ==
    LET i == PickSeparator(t, seps)
    IN  [splits  |-> SplitKeep(t, seps[i]),
         good    |-> <<>>,
         final   |-> <<>>,
         newSeps |-> IF seps[i] = <<>> THEN <<>> ELSE SubSeq(seps, i + 1, Len(seps))]

\* final_chunks after the pieces collected in _good_splits are merged into it
Flushed(f, overlap) ==
    IF f.good # <<>> THEN f.final \o MergeSplits(f.good, ChunkSize, overlap) ELSE f.final

InitSplit ==
    /\ split \in [text : SplitTexts, overlap : 0..(ChunkSize + 1), stack : {<<>>},
                  result : {<<>>}, pc : {"new"}]
    /\ StoreEmpty /\ CleanIdle /\ AtRest({"split"})

\* RecursiveCharacterTextSplitter(chunk_size, chunk_overlap, ...) in __init__:
\* the library raises ValueError for an overlap larger than the chunk size,
\* the processor checks nothing itself
NewSplitter ==
    /\ split.pc = "new"
    /\ split' = [split EXCEPT !.pc = IF split.overlap > ChunkSize THEN "rejected"
                                     ELSE "call"]
    /\ UNCHANGED <<cleanVars, procVars, extraction, engine, sumCall, batch, auth>>

\* text_splitter.split_text(text): the outermost call of _split_text
SplitTextCall ==
    /\ split.pc = "call"
    /\ split' = [split EXCEPT !.stack = <<SplitFrame(split.text, Separators)>>,
                              !.pc = "running"]
    /\ UNCHANGED <<cleanVars, procVars, extraction, engine, sumCall, batch, auth>>

\* one iteration of "for s in splits": a short piece is collected, a piece of
\* the chunk size or more is kept whole or split on the finer separators
SplitPiece ==
    /\ split.pc = "running"
    /\ LET n == Len(split.stack)
           f == split.stack[n]
           s == Head(f.splits)
           g == [f EXCEPT !.splits = Tail(f.splits)]
       IN  /\ f.splits # <<>>
           /\ split' = [split EXCEPT !.stack =
                  IF Len(s) < ChunkSize
                  THEN [split.stack EXCEPT ![n] = [g EXCEPT !.good = Append(f.good, s)]]
                  ELSE LET flushed == Flushed(f, split.overlap)
                       IN  IF f.newSeps = <<>>
                           THEN [split.stack EXCEPT ![n] =
                                    [g EXCEPT !.good = <<>>, !.final = Append(flushed, s)]]
                           ELSE Append([split.stack EXCEPT ![n] =
                                           [g EXCEPT !.good = <<>>, !.final = flushed]],
                                       SplitFrame(s, f.newSeps))]
    /\ UNCHANGED <<cleanVars, procVars, extraction, engine, sumCall, batch, auth>>

\* the end of the loop: the last merge and "return final_chunks", to the
\* calling frame's final_chunks.extend or to create_intelligent_chunks
SplitReturn ==
    /\ split.pc = "running"
    /\ LET n   == Len(split.stack)
           f   == split.stack[n]
           res == Flushed(f, split.overlap)
       IN  /\ f.splits = <<>>
           /\ split' = IF n = 1
                       THEN [split EXCEPT !.stack = <<>>, !.result = res, !.pc = "done"]
                       ELSE [split EXCEPT !.stack =
                                [k \in 1..(n - 1) |->
                                    IF k = n - 1
                                    THEN [split.stack[k] EXCEPT !.final = @ \o res]
                                    ELSE split.stack[k]]]
    /\ UNCHANGED <<cleanVars, procVars, extraction, engine, sumCall, batch, auth>>

SpecSplit == InitSplit /\ [][NewSplitter \/ SplitTextCall \/ SplitPiece \/ SplitReturn]_vars

(***************************************************************************)
(* Extraction runs: lines 440-451 of process_document on every short text  *)
(* file and on every short PDF.  A page of a PDF has its text and, for     *)
(* each of the two libraries, whether reading the page raises.             *)
(***************************************************************************)
MaxBytes == 4

MaxPages == 3

\* the text files over NUL, an ASCII letter, a byte cp1252 leaves undefined,
\* the two bytes of U+00E9 in UTF-8 (last, first) and the two bytes of the
\* byte order mark; the PDFs of pages "a" or "b" that read well or raise
ExtractFiles ==
    LET byte == {0, 97, 129, 169, 195, 254, 255}
        page == [text : {<<97>>, <<98>>}, fitz : {"ok", "raises"}, pypdf : {"ok", "raises"}]
    IN  [ext : {".txt", ".md", ".rtf"},
         bytes : UNION {[1..k -> byte] : k \in 0..MaxBytes},
         pages : {<<>>}]
        \cup [ext : {".pdf"}, bytes : {<<>>}, pages : UNION {[1..k -> page] : k \in 0..MaxPages}]

InitExtract ==
    /\ extraction \in [file : ExtractFiles, text : {<<>>}, encoding : {""}, error : {""},
                       pc : {"input"}]
    /\ StoreEmpty /\ CleanIdle /\ AtRest({"extraction"})

\* the extraction of process_document and its emptiness check
Extract ==
    /\ extraction.pc = "input"
    /\ extraction' = LET r == ExtractDocument(extraction.file)
                     IN  [extraction EXCEPT !.text = r.text, !.encoding = r.encoding,
                                            !.error = r.error, !.pc = "done"]
    /\ UNCHANGED <<cleanVars, procVars, split, engine, sumCall, batch, auth>>

SpecExtract == InitExtract /\ [][Extract]_vars

(***************************************************************************)
(* The RAG engine.  A chunk in the vector store is its page_content and    *)
(* its metadata; the chain retrieves from the store it was built over.     *)
(***************************************************************************)
ExcerptLen == 200

MaxSources == 3

RetrieverK == 4

\* chunks the store is built from, and asks of one behaviour
MaxStore == 4

MaxQueries == 2

\* the source list of ask with the excerpt cut at ExcerptLen characters and
\* more
SourcesOfFromLimit(source_documents) ==
    LET n == IF Len(source_documents) < MaxSources THEN Len(source_documents) ELSE MaxSources
    IN  [i \in 1..n |->
            LET doc == source_documents[i]
            IN  [source  |-> IF "source" \in DOMAIN doc.metadata THEN doc.metadata.source
                             ELSE "Unknown document",
                 content |-> IF Len(doc.page_content) >= ExcerptLen
                             THEN SubSeq(doc.page_content, 1, ExcerptLen) \o <<".", ".", ".">>
                             ELSE doc.page_content,
                 index   |-> i]]

\* lines 110-119 of ask: a source for each of source_documents[:3]
SourcesOf(source_documents) ==
    LET n == IF Len(source_documents) < MaxSources THEN Len(source_documents) ELSE MaxSources
    IN  [i \in 1..n |->
            LET doc == source_documents[i]
            IN  [source  |-> IF "source" \in DOMAIN doc.metadata THEN doc.metadata.source
                             ELSE "Unknown document",
                 content |-> IF Len(doc.page_content) > ExcerptLen
                             THEN SubSeq(doc.page_content, 1, ExcerptLen) \o <<".", ".", ".">>
                             ELSE doc.page_content,
                 index   |-> i]]

\* a handler that catches ValueError only
AskCatchesValueError(class) == class = "ValueError"

\* "except Exception" of ask: every exception class but the three that
\* derive from BaseException alone
AskCatches(class) == class \notin {"KeyboardInterrupt", "SystemExit", "GeneratorExit"}

\* a counter that counts the queries answered without an exception
CountAnswered(total_queries, class) == IF class = "" THEN total_queries + 1 ELSE total_queries

\* "self.total_queries += 1", the first statement of ask, before the chain is
\* called and raises the exception of the given class (none for "")
CountQuery(total_queries, class) == total_queries + 1

InitAsk ==
    /\ engine = NewEngine
    /\ StoreEmpty /\ CleanIdle /\ AtRest({"engine"})

\* build_vector_store(chunks, metadatas) as the upload handler calls it, once
\* and with chunks: a text of ExcerptLen characters without a source tag and a
\* text of ExcerptLen + 1 characters ("a" up to the limit, "b" beyond it)
\* with one
BuildVectorStore ==
    /\ ~engine.vector_store.built
    /\ LET text(n) == [i \in 1..n |-> IF i <= ExcerptLen THEN "a" ELSE "b"]
           chunk   == {[page_content |-> text(ExcerptLen), metadata |-> [page |-> "1"]],
                       [page_content |-> text(ExcerptLen + 1),
                        metadata |-> [source |-> "y.txt"]]}
       IN  \E n \in 1..MaxStore : \E docs0 \in [1..n -> chunk] :
               engine' = [engine EXCEPT !.vector_store = [built |-> TRUE, docs |-> docs0],
                                        !.last = NoAsk]
    /\ UNCHANGED <<cleanVars, procVars, split, extraction, sumCall, batch, auth>>

\* build_chain: the retriever of the chain is over the vector store of now;
\* without a vector store (or a pipeline) it raises and builds nothing
BuildChain ==
    /\ engine.vector_store.built
    /\ ~engine.chain.built
    /\ engine' = [engine EXCEPT !.chain = engine.vector_store, !.last = NoAsk]
    /\ UNCHANGED <<cleanVars, procVars, split, extraction, sumCall, batch, auth>>

\* ask(query): the chain retrieves up to RetrieverK chunks of its store, in an
\* order of its own, and generates; either may raise, and calling the chain
\* that is None raises TypeError
Ask ==
    /\ engine.asks < MaxQueries
    /\ LET docs0  == engine.chain.docs
           r      == IF Len(docs0) < RetrieverK THEN Len(docs0) ELSE RetrieverK
           retrieved == {[i \in 1..r |-> docs0[o[i]]] :
                            o \in {f \in [1..r -> 1..Len(docs0)] :
                                       \A i, j \in 1..r : f[i] = f[j] => i = j}}
       IN  \E outcome \in IF engine.chain.built
                           THEN {"ok", "retrieval fails", "generation fails"}
                           ELSE {"chain is None"} :
           \E result \in IF outcome = "ok" THEN {"", "Y"} ELSE {""},
              source_documents \in IF outcome = "ok" THEN retrieved ELSE {<<>>} :
               LET exc == IF outcome = "chain is None"
                          THEN [class |-> "TypeError",
                                str |-> "'NoneType' object is not callable"]
                          ELSE IF outcome = "retrieval fails"
                          THEN [class |-> "ValueError", str |-> "retrieval failed"]
                          ELSE IF outcome = "generation fails"
                          THEN [class |-> "RuntimeError", str |-> "generation failed"]
                          ELSE [class |-> "", str |-> ""]
               IN  engine' = [engine EXCEPT
                       !.total_queries = CountQuery(@, exc.class),
                       !.asks = @ + 1,
                       !.now = @ + 1,
                       !.last =
                           IF exc.class = ""
                           THEN [NoAsk EXCEPT !.called = TRUE,
                                              !.retrieved = source_documents,
                                              !.answer = result,
                                              !.sources = SourcesOf(source_documents),
                                              !.timestamp = engine.now + 1]
                           ELSE IF AskCatches(exc.class)
                           THEN [NoAsk EXCEPT !.called = TRUE, !.failure = exc.str,
                                              !.answer = "Sorry, I encountered an error: "
                                                             \o exc.str,
                                              !.timestamp = engine.now + 1]
                           ELSE [NoAsk EXCEPT !.called = TRUE, !.failure = exc.str,
                                              !.raised = exc.class]]
    /\ UNCHANGED <<cleanVars, procVars, split, extraction, sumCall, batch, auth>>

\* get_stats(): the counter and the number of chunks in the vector store
GetStats ==
    /\ engine' = [engine EXCEPT !.stats = [called |-> TRUE,
                                           total_queries |-> engine.total_queries,
                                           vector_store_size |-> Len(engine.vector_store.docs)]]
    /\ UNCHANGED <<cleanVars, procVars, split, extraction, sumCall, batch, auth>>

SpecAsk == InitAsk /\ [][BuildVectorStore \/ BuildChain \/ Ask \/ GetStats]_vars

(***************************************************************************)
(* The summarizer.  Its splitter is the recursive splitter with the        *)
(* separators and sizes of Summarizer.__init__; a backend response is      *)
(* [raised, text]: the exception of the request ("" if none) and the text  *)
(* of the first candidate ("" if there is none).                           *)
(***************************************************************************)
SummaryChunkSize == 3

SummaryChunkOverlap == 1

SectionExcerptLen == 600

RECURSIVE Join(_, _)
\* sep.join(ss)
Join(ss, sep) ==
    IF ss = <<>> THEN <<>>
    ELSE IF Len(ss) = 1 THEN ss[1]
    ELSE ss[1] \o sep \o Join(Tail(ss), sep)

RECURSIVE ReplaceDoubleSpaces(_)
\* t.replace("  ", " "): the occurrences found from the left, not overlapping
ReplaceDoubleSpaces(t) ==
    IF Len(t) < 2 THEN t
    ELSE IF t[1] = SP /\ t[2] = SP THEN <<SP>> \o ReplaceDoubleSpaces(Tail(Tail(t)))
    ELSE <<t[1]>> \o ReplaceDoubleSpaces(Tail(t))

\* text.split(): the maximal runs of characters that are not whitespace
Words(t) ==
    LET starts == {i \in 1..Len(t) : ~IsSpace(t[i]) /\ (i = 1 \/ IsSpace(t[i - 1]))}
        end(i) == CHOOSE j \in i..Len(t) :
                      /\ \A k \in i..j : ~IsSpace(t[k])
                      /\ (j = Len(t) \/ IsSpace(t[j + 1]))
        nth(n) == CHOOSE i \in starts : Cardinality({j \in starts : j < i}) = n - 1
    IN  [n \in 1..Cardinality(starts) |-> SubSeq(t, nth(n), end(nth(n)))]

\* _gemini_complete: the stripped text of the response; "" when the request
\* raised (time-out, HTTP error status, malformed body) or brought no text
GeminiComplete(response) == IF response.raised # "" THEN <<>> ELSE Strip(response.text)

\* a fallback that takes the whole piece
FirstSentenceWhole(chunk) == chunk

\* chunk.split(".")[0] + "."
FirstSentence(chunk) == SplitOn(chunk, <<".">>)[1] \o <<".">>

\* self.splitter.split_text(text)
SummarySplit(text) ==
    SplitRec(text, << <<NL, NL>>, <<NL>>, <<".", SP>>, <<SP>>, <<>> >>,
             SummaryChunkSize, SummaryChunkOverlap)

\* the loop and the return of summarize over the pieces chunks0 of its text
\* (none for a blank text), the backend answering the request for piece i
\* with responses[i]
SummarizeChunks(chunks0, responses) ==
    LET summaries == [i \in 1..Len(chunks0) |->
                         IF GeminiComplete(responses[i]) # <<>>
                         THEN GeminiComplete(responses[i])
                         ELSE FirstSentence(chunks0[i])]
    IN  Strip(ReplaceDoubleSpaces(Join(summaries, <<SP>>)))

\* common_headers
CommonHeaders ==
    {<<"i", "n", "t", "r", "o", "d", "u", "c", "t", "i", "o", "n">>,
     <<"a", "b", "s", "t", "r", "a", "c", "t">>,
     <<"e", "x", "e", "c", "u", "t", "i", "v", "e", SP, "s", "u", "m", "m", "a", "r", "y">>,
     <<"o", "v", "e", "r", "v", "i", "e", "w">>,
     <<"b", "a", "c", "k", "g", "r", "o", "u", "n", "d">>,
     <<"l", "i", "t", "e", "r", "a", "t", "u", "r", "e", SP, "r", "e", "v", "i", "e", "w">>,
     <<"m", "e", "t", "h", "o", "d", "o", "l", "o", "g", "y">>,
     <<"m", "e", "t", "h", "o", "d", "s">>,
     <<"r", "e", "s", "u", "l", "t", "s">>,
     <<"f", "i", "n", "d", "i", "n", "g", "s">>,
     <<"d", "i", "s", "c", "u", "s", "s", "i", "o", "n">>,
     <<"a", "n", "a", "l", "y", "s", "i", "s">>,
     <<"c", "o", "n", "c", "l", "u", "s", "i", "o", "n">>,
     <<"r", "e", "c", "o", "m", "m", "e", "n", "d", "a", "t", "i", "o", "n", "s">>,
     <<"i", "m", "p", "l", "i", "c", "a", "t", "i", "o", "n", "s">>,
     <<"f", "u", "t", "u", "r", "e", SP, "w", "o", "r", "k">>,
     <<"r", "e", "f", "e", "r", "e", "n", "c", "e", "s">>,
     <<"b", "i", "b", "l", "i", "o", "g", "r", "a", "p", "h", "y">>,
     <<"a", "p", "p", "e", "n", "d", "i", "x">>,
     <<"a", "c", "k", "n", "o", "w", "l", "e", "d", "g", "m", "e", "n", "t", "s">>,
     <<"s", "u", "m", "m", "a", "r", "y">>,
     <<"c", "h", "a", "l", "l", "e", "n", "g", "e", "s">>,
     <<"o", "p", "p", "o", "r", "t", "u", "n", "i", "t", "i", "e", "s">>,
     <<"i", "m", "p", "a", "c", "t">>,
     <<"b", "e", "n", "e", "f", "i", "t", "s">>,
     <<"r", "i", "s", "k", "s">>,
     <<"i", "m", "p", "l", "e", "m", "e", "n", "t", "a", "t", "i", "o", "n">>,
     <<"s", "t", "r", "a", "t", "e", "g", "y">>,
     <<"a", "p", "p", "r", "o", "a", "c", "h">>,
     <<"f", "r", "a", "m", "e", "w", "o", "r", "k">>,
     <<"m", "o", "d", "e", "l">>,
     <<"c", "a", "s", "e", SP, "s", "t", "u", "d", "y">>,
     <<"e", "x", "a", "m", "p", "l", "e", "s">>,
     <<"a", "p", "p", "l", "i", "c", "a", "t", "i", "o", "n", "s">>,
     <<"l", "i", "m", "i", "t", "a", "t", "i", "o", "n", "s">>}

\* the header test of _detect_sections on a line: the six rules in order
IsHeader(line) ==
    LET upper == <<"A", "B", "C", "D", "E", "F", "G", "H", "I", "J", "K", "L", "M",
                   "N", "O", "P", "Q", "R", "S", "T", "U", "V", "W", "X", "Y", "Z">>
        lower == <<"a", "b", "c", "d", "e", "f", "g", "h", "i", "j", "k", "l", "m",
                   "n", "o", "p", "q", "r", "s", "t", "u", "v", "w", "x", "y", "z">>
        digit == {"0", "1", "2", "3", "4", "5", "6", "7", "8", "9"}
        isUpper(c) == \E i \in 1..26 : upper[i] = c
        isLower(c) == \E i \in 1..26 : lower[i] = c
        toLower(c) == IF isUpper(c) THEN lower[CHOOSE i \in 1..26 : upper[i] = c] ELSE c
        line_stripped == Strip(line)
        n == Len(line_stripped)
        line_lower == [i \in 1..n |-> toLower(line_stripped[i])]
        \* length of the longest prefix of line_stripped made of characters of S
        run(S) == CHOOSE k \in 0..n :
                      /\ \A i \in 1..k : line_stripped[i] \in S
                      /\ (k = n \/ line_stripped[k + 1] \notin S)
        \* length of the run of whitespace that starts at position i
        spaces(i) == CHOOSE k \in 0..n :
                      /\ \A j \in i..(i + k - 1) : j <= n /\ IsSpace(line_stripped[j])
                      /\ (i + k > n \/ ~IsSpace(line_stripped[i + k]))
        \* ^\d+[\.\)]\s+ and what follows it
        d == run(digit)
        numbered == /\ d >= 1 /\ d < n /\ line_stripped[d + 1] \in {".", ")"}
                    /\ spaces(d + 2) >= 1
        afterNumber == d + 2 + spaces(d + 2)
        \* ^[IVX]+\.\s+[A-Z]
        v == run({"I", "V", "X"})
        roman == /\ v >= 1 /\ v < n /\ line_stripped[v + 1] = "."
                 /\ spaces(v + 2) >= 1
                 /\ v + 2 + spaces(v + 2) <= n
                 /\ isUpper(line_stripped[v + 2 + spaces(v + 2)])
        isupper == /\ \E i \in 1..n : isUpper(line_stripped[i])
                   /\ \A i \in 1..n : ~isLower(line_stripped[i])
        words == Words(line_stripped)
        title_case_count == Cardinality({i \in 1..Len(words) : isUpper(words[i][1])})
    IN  /\ line_stripped # <<>>
        /\ \/ (\E header \in CommonHeaders : FirstOccurrence(line_lower, header) # 0) /\ n < 100
           \/ numbered /\ afterNumber <= n
                 /\ (isUpper(line_stripped[afterNumber]) \/ isLower(line_stripped[afterNumber]))
           \/ numbered
           \/ roman
           \/ isupper /\ n < 50
           \/ /\ n < 80
              /\ isUpper(line_stripped[1])
              /\ line_stripped[n] \notin {".", ":", ";"}
              /\ \E i \in 1..n : line_stripped[i] \notin digit
              /\ Len(words) <= 5
              /\ 10 * title_case_count >= 7 * Len(words)

\* a flush that keeps a section whatever its content
FlushSectionAlways(sections, current_section, current_content) ==
    IF current_section # <<>>
    THEN Append(sections, [title |-> current_section,
                           body |-> Strip(Join(current_content, <<NL>>))])
    ELSE sections

\* sections with the section open at the end of the text flushed: it is kept
\* when it has a title, a line of content and content that is not blank
FlushSection(sections, current_section, current_content) ==
    IF current_section # <<>> /\ current_content # <<>>
          /\ Strip(Join(current_content, <<NL>>)) # <<>>
    THEN Append(sections, [title |-> current_section,
                           body |-> Strip(Join(current_content, <<NL>>))])
    ELSE sections

RECURSIVE DetectLoop(_, _, _, _)
\* the loop of _detect_sections over the lines left; current_section is <<>>
\* for None
DetectLoop(lines, sections, current_section, current_content) ==
    IF lines = <<>> THEN FlushSection(sections, current_section, current_content)
    ELSE IF IsHeader(Head(lines))
    THEN DetectLoop(Tail(lines), FlushSection(sections, current_section, current_content),
                    Strip(Head(lines)), <<>>)
    ELSE DetectLoop(Tail(lines), sections, current_section,
                    Append(current_content, Head(lines)))

\* a detector that returns the sections found, however few
DetectSectionsFound(text) == DetectLoop(SplitOn(text, <<NL>>), <<>>, <<>>, <<>>)

\* _detect_sections(text)
DetectSections(text) ==
    LET sections == DetectLoop(SplitOn(text, <<NL>>), <<>>, <<>>, <<>>)
    IN  IF sections = <<>>
        THEN <<[title |-> <<"D", "o", "c", "u", "m", "e", "n", "t">>, body |-> text]>>
        ELSE sections

\* summarize_with_sections once the sections are detected (none for a blank
\* text): the backend answers the request for the overall summary with
\* responses[1] and the request for section i with responses[i + 1]
SectionReport(text, sections, responses) ==
    IF Strip(text) = <<>>
    THEN [overall_summary |-> <<>>, sections |-> <<>>, total_sections |-> 0]
    ELSE [overall_summary |-> GeminiComplete(responses[1]),
          sections |->
              [i \in 1..Len(sections) |->
                  [title |-> sections[i].title,
                   content |-> SubSeq(Strip(sections[i].body), 1,
                                      IF Len(Strip(sections[i].body)) < SectionExcerptLen
                                      THEN Len(Strip(sections[i].body))
                                      ELSE SectionExcerptLen)
                               \o (IF Len(sections[i].body) > SectionExcerptLen
                                   THEN <<"U+00E2", "U+20AC", "U+00A6">> ELSE <<>>),
                   summary |-> GeminiComplete(responses[i + 1]),
                   word_count |-> Len(Words(sections[i].body)),
                   char_count |-> Len(sections[i].body)]],
          total_sections |-> Len(sections)]

(***************************************************************************)
(* Summarizer runs: one call of summarize, summarize_with_sections or      *)
(* _detect_sections on a text, the backend answering each request in any   *)
(* of three ways.                                                          *)
(***************************************************************************)
MaxSumLen == 5

MaxLines == 3

MaxDetectLines == 4

\* a request that timed out, a response without text, a response with text
Responses ==
    {[raised |-> "Timeout", text |-> <<>>], [raised |-> "", text |-> <<>>],
     [raised |-> "", text |-> <<"S", SP>>]}

\* a call of summarize on a text of up to MaxSumLen characters over a letter,
\* the full stop, the blank and the newline; or a call of
\* summarize_with_sections or _detect_sections on a text of up to MaxLines
\* lines, each an empty line, a line for each header rule in turn, or one of
\* two lines that are no header; or a call of _detect_sections on a text of
\* up to MaxDetectLines lines, each an empty line, one of two headers or one
\* of two lines that are no header
InitSum ==
    /\ LET line == {<<>>, <<"m", "o", "d", "e", "l">>, <<"1", ".", SP, "a">>,
                    <<"1", ")", SP, "2">>, <<"I", "V", ".", SP, "A">>, <<"A", "B">>,
                    <<"A", "b">>, <<"A", "b", SP, "c">>, <<"a", "b", ".">>}
           few  == {<<>>, <<"A", "B">>, <<"A", "b">>, <<"A", "b", SP, "c">>, <<"a", "b", ".">>}
           SectionTexts(ln, max) ==
               {Join(ls, <<NL>>) : ls \in UNION {[1..n -> ln] : n \in 1..max}}
           SumTexts == UNION {[1..n -> {"a", ".", SP, NL}] : n \in 0..MaxSumLen}
       IN  sumCall \in {[NoSumCall EXCEPT !.op = "summarize", !.text = t, !.pc = "call"] :
                           t \in SumTexts}
                       \cup {[NoSumCall EXCEPT !.op = "summarize_with_sections",
                                                !.text = t, !.pc = "call"] :
                                t \in SectionTexts(line, MaxLines)}
                       \cup {[NoSumCall EXCEPT !.op = "_detect_sections",
                                                !.text = t, !.pc = "call"] :
                                t \in SectionTexts(line, MaxLines)
                                         \cup SectionTexts(few, MaxDetectLines)}
    /\ StoreEmpty /\ CleanIdle /\ AtRest({"sumCall"})

Summarize ==
    /\ sumCall.pc = "call" /\ sumCall.op = "summarize"
    /\ \E chunks0 \in {IF Strip(sumCall.text) = <<>> THEN <<>>
                       ELSE SummarySplit(sumCall.text)} :
       \E responses \in [1..Len(chunks0) -> Responses] :
           sumCall' = [sumCall EXCEPT !.responses = responses,
                                      !.summary = SummarizeChunks(chunks0, responses),
                                      !.pc = "done"]
    /\ UNCHANGED <<cleanVars, procVars, split, extraction, engine, batch, auth>>

\* a section with a blank body is passed over
SummarizeSections ==
    /\ sumCall.pc = "call" /\ sumCall.op = "summarize_with_sections"
    /\ \E sections \in {IF Strip(sumCall.text) = <<>> THEN <<>>
                        ELSE SelectSeq(DetectSections(sumCall.text),
                                       LAMBDA x : Strip(x.body) # <<>>)} :
       \E responses \in [1..(IF Strip(sumCall.text) = <<>> THEN 0 ELSE 1 + Len(sections))
                            -> Responses] :
           sumCall' = [sumCall EXCEPT !.responses = responses,
                                      !.report = SectionReport(sumCall.text, sections,
                                                               responses),
                                      !.pc = "done"]
    /\ UNCHANGED <<cleanVars, procVars, split, extraction, engine, batch, auth>>

Detect ==
    /\ sumCall.pc = "call" /\ sumCall.op = "_detect_sections"
    /\ sumCall' = [sumCall EXCEPT !.detected = DetectSections(sumCall.text), !.pc = "done"]
    /\ UNCHANGED <<cleanVars, procVars, split, extraction, engine, batch, auth>>

SpecSum == InitSum /\ [][Summarize \/ SummarizeSections \/ Detect]_vars

(***************************************************************************)
(* The upload handler of the application.  An uploaded file is its name,   *)
(* what processing it does ("processed", "cached" or "raises") and the     *)
(* chunks stored for it; the session is st.session_state, its rag_engine   *)
(* the chunks and metadata the index was built from, if it is built.       *)
(***************************************************************************)
MaxBatch == 3

InitBatch ==
    /\ LET file(i) == {[name |-> i, outcome |-> o, chunks |-> [k \in 1..n |-> <<i, k>>]] :
                          o \in {"processed", "cached", "raises"}, n \in 1..2}
       IN  \E n \in 1..MaxBatch : \E files \in [1..n -> UNION {file(i) : i \in 1..n}] :
               /\ \A i \in 1..n : files[i].name = i
               /\ batch = [NoBatch EXCEPT !.files = files, !.pc = "clicked"]
    /\ StoreEmpty /\ CleanIdle /\ AtRest({"batch"})

\* the handler of "Process Documents": the loop over the files stops at the
\* first file whose processing raises; without an exception, and with chunks
\* collected, the engine is built, which may raise as well, and the session
\* is set
ProcessDocuments ==
    /\ batch.pc = "clicked"
    /\ LET files   == batch.files
           raising == {i \in 1..Len(files) : files[i].outcome = "raises"}
           stop    == IF raising = {} THEN Len(files) + 1
                      ELSE CHOOSE i \in raising : \A j \in raising : i <= j
           chunksOf(i) == IF files[i].outcome = "processed" THEN files[i].chunks ELSE <<>>
           all_chunks == Concat([i \in 1..(stop - 1) |-> chunksOf(i)])
           metadatas  == Concat([i \in 1..(stop - 1) |->
                                    [k \in 1..Len(chunksOf(i)) |-> [source |-> files[i].name]]])
           processed_data == {files[i].name : i \in {j \in 1..(stop - 1) :
                                                        files[j].outcome = "processed"}}
       IN  \E build \in IF raising = {} /\ all_chunks # <<>> THEN {"ok", "raises"}
                        ELSE {"not called"} :
               batch' = [batch EXCEPT
                   !.returned = stop - 1,
                   !.processed_data = processed_data,
                   !.all_chunks = all_chunks,
                   !.metadatas = metadatas,
                   !.error = IF raising # {} \/ build = "raises"
                             THEN "Error processing documents" ELSE "",
                   !.session = IF build = "ok"
                               THEN [rag_engine |-> [built |-> TRUE, chunks |-> all_chunks,
                                                     metadatas |-> metadatas],
                                     processed_texts |-> processed_data,
                                     documents_processed |-> TRUE]
                               ELSE @,
                   !.pc = "done"]
    /\ UNCHANGED <<cleanVars, procVars, split, extraction, engine, sumCall, auth>>

SpecBatch == InitBatch /\ [][ProcessDocuments]_vars

(***************************************************************************)
(* app/auth.py: signup and login over the userInfo collection.  A password *)
(* is a sequence of characters; a bcrypt hash is the scheme mark, the salt *)
(* and a digest that is one-to-one in salt and password.  An _id is the    *)
(* number of the insert, str(_id) its digits.                              *)
(***************************************************************************)
MaxRequests == 3

\* a stored password that is the password itself
HashPasswordPlain(salt, password) == password

\* hash_password: pwd_context.hash(password), with the salt the library draws
HashPassword(salt, password) == <<"$2b$", salt>> \o password

\* a verification that accepts every password
VerifyPasswordAny(plain_password, hashed_password) == TRUE

\* verify_password: the digest of the plain password under the salt of the
\* stored hash is the stored digest
VerifyPassword(plain_password, hashed_password) ==
    /\ Len(hashed_password) >= 2
    /\ hashed_password = HashPassword(hashed_password[2], plain_password)

\* find_one({"email": email}): the first matching document in natural order,
\* None (here the empty sequence) without one
FindOne(userInfo, email) ==
    LET S == {i \in 1..Len(userInfo) : userInfo[i].email = email}
    IN  IF S = {} THEN <<>> ELSE <<userInfo[CHOOSE i \in S : \A j \in S : i <= j]>>

InitAuth ==
    /\ StoreEmpty /\ CleanIdle /\ AtRest({"auth"})
    /\ auth = NoAuth

\* a POST /auth/signup arrives and its handler runs line 17, the find_one
SignupFind(r, username, email, password) ==
    /\ auth.request[r].pc \in {"idle", "done"}
    /\ auth.total < MaxRequests
    /\ auth' = [auth EXCEPT
          !.total = @ + 1,
          !.request[r] =
              LET q == [NoRequest EXCEPT !.op = "signup", !.seq = auth.total + 1,
                                         !.username = username, !.email = email,
                                         !.password = password]
              IN  IF FindOne(auth.userInfo, email) # <<>>
                  THEN [q EXCEPT !.pc = "done", !.response.status_code = 400,
                                 !.response.detail = "Email already registered"]
                  ELSE [q EXCEPT !.pc = "insert"]]
    /\ UNCHANGED <<cleanVars, procVars, split, extraction, engine, sumCall, batch>>

\* lines 20-26: the insert_one of the hashed record, and the reply
SignupInsert(r) ==
    /\ auth.request[r].pc = "insert"
    /\ \E salt \in {"s", "t"} :
          LET q    == auth.request[r]
              id   == Len(auth.userInfo) + 1
              user == [_id |-> id, username |-> q.username, email |-> q.email,
                       password |-> HashPassword(salt, q.password)]
          IN  auth' = [auth EXCEPT
                 !.userInfo = Append(@, user),
                 !.signups = @ \cup {[id |-> id, username |-> q.username,
                                      email |-> q.email, password |-> q.password,
                                      fresh |-> FindOne(auth.userInfo, q.email) = <<>>]},
                 !.request[r] = [q EXCEPT !.pc = "done", !.response.status_code = 200,
                                          !.response.message = "User created successfully"]]
    /\ UNCHANGED <<cleanVars, procVars, split, extraction, engine, sumCall, batch>>

\* lines 28-41: POST /auth/login, one find_one and the verification
Login(r, email, password) ==
    /\ auth.request[r].pc \in {"idle", "done"}
    /\ auth.total < MaxRequests
    /\ auth' = [auth EXCEPT
          !.total = @ + 1,
          !.request[r] =
              LET q       == [NoRequest EXCEPT !.op = "login", !.seq = auth.total + 1,
                                               !.email = email, !.password = password,
                                               !.pc = "done"]
                  db_user == FindOne(auth.userInfo, email)
              IN  IF db_user = <<>> \/ ~VerifyPassword(password, db_user[1].password)
                  THEN [q EXCEPT !.response.status_code = 401,
                                 !.response.detail = "Invalid credentials"]
                  ELSE [q EXCEPT !.response.status_code = 200,
                                 !.response.message = "Login successful",
                                 !.response.user_data =
                                     [user_id |-> ToString(db_user[1]._id),
                                      username |-> db_user[1].username,
                                      email |-> db_user[1].email]]]
    /\ UNCHANGED <<cleanVars, procVars, split, extraction, engine, sumCall, batch>>

\* the addresses, names and passwords the requests carry
Emails == {"a@x", "b@x"}
Usernames == {"u", "v"}
Passwords == {<<"p">>, <<"q">>}

SpecAuth ==
    InitAuth
    /\ [][\/ \E r \in Requests, username \in Usernames, email \in Emails,
                password \in Passwords : SignupFind(r, username, email, password)
          \/ \E r \in Requests : SignupInsert(r)
          \/ \E r \in Requests, email \in Emails, password \in Passwords :
                Login(r, email, password)]_vars

(***************************************************************************)
(* The processor after construction: an empty store, no call under way.    *)
(***************************************************************************)
Init == StoreEmpty /\ CleanIdle /\ AtRest({})

Spec == Init /\ [][Next]_vars

\* one caller at a time: the calls of one thread, with the statistics and the
\* clean-up between its steps
SpecStore ==
    Init /\ [][\/ \E f \in Files : Begin("t1", f)
               \/ CheckCache("t1") \/ Compute("t1") \/ InsertDocument("t1")
               \/ InsertChunk("t1") \/ Commit("t1") \/ Abandon("t1")
               \/ \E h \in Hashes : Load(h)
               \/ Stats
               \/ CleanupCache]_vars

(***************************************************************************)
(* Properties of the store and of process_document.                        *)
(***************************************************************************)
IntegrityError == "IntegrityError: UNIQUE constraint failed: documents.file_hash"

NotFoundError == "ValueError: Document not found in cache"

\* table rows holds a document record with hash h
HasRecord(rows, h) == \E i \in 1..Len(rows) : rows[i].file_hash = h

\* the call of t is over by itself: it returned a result or raised
Returned(t) == call[t].pc = "returned"

\* C1 as stated: once a call on content b has returned 'processed', every
\* later call on a file with content b, whatever its name, returns 'cached'
\* with the hash of b and adds no record.
C1_LaterCallIsCached ==
    \A t \in Threads :
        (Returned(t) /\ call[t].after)
            => /\ call[t].result.status = "cached"
               /\ call[t].result.file_hash = FileHash(call[t].file.content)
               /\ call[t].added = 0

\* C1 amended: once a call on content b has returned 'processed', every later
\* call on a file with content b and a supported extension, whatever its
\* name, returns 'cached' with the hash of b and adds no record.
C1_LaterSupportedCallIsCached ==
    \A t \in Threads :
        (Returned(t) /\ call[t].after /\ call[t].file.ext \in SupportedFormats)
            => /\ call[t].result.status = "cached"
               /\ call[t].result.file_hash = FileHash(call[t].file.content)
               /\ call[t].added = 0

\* a later call got 'cached' for content stored under another filename
C1_Witness ==
    \E t \in Threads :
        /\ Returned(t) /\ call[t].after /\ call[t].result.status = "cached"
        /\ \E i \in 1..Len(docs) :
               /\ docs[i].file_hash = call[t].result.file_hash
               /\ docs[i].filename # call[t].file.name

NoTwoWithOneHash(rows) ==
    \A i, j \in 1..Len(rows) : rows[i].file_hash = rows[j].file_hash => i = j

\* C2: no two document records have the same file hash, in the rows the
\* connection sees and in the database file, under any interleaving.
C2_OneRecordPerHash == NoTwoWithOneHash(docs) /\ NoTwoWithOneHash(durDocs)

\* two calls on the same bytes have both passed the cache check, and one of
\* them has inserted its document record
C2_Witness ==
    \E t, u \in Threads :
        /\ t # u
        /\ call[t].pc = "insert_doc" /\ call[u].pc = "insert_chunk"
        /\ call[t].hash = call[u].hash

\* C3: after a call fails or is abandoned, is_cached is false for its file and
\* the store holds no record of it (unless another call stored that content
\* or is storing it).
C3_NoPartialDocument ==
    \A t \in Threads :
        (/\ call[t].pc = "failed"
         /\ call[t].hash \notin processed
         /\ \A u \in Threads : call[u].pc = "insert_chunk" => call[u].hash # call[t].hash)
            => /\ ~IsDocumentCached(call[t].hash)
               /\ ~HasRecord(docs, call[t].hash)
               /\ ~HasRecord(durDocs, call[t].hash)

\* the chunk rows of document d in table rows
ChunksOf(rows, d) == SelectSeq(rows, LAMBDA r : r.document_id = d.id)

RECURSIVE SumTextLen(_)
SumTextLen(rows) ==
    IF rows = <<>> THEN 0 ELSE Len(Head(rows).chunk_text) + SumTextLen(Tail(rows))

ChunkIndexInvariant(drows, crows) ==
    \A n \in 1..Len(drows) :
        LET d  == drows[n]
            cs == ChunksOf(crows, d)
        IN  /\ Len(cs) = d.total_chunks
            /\ {cs[i].chunk_index : i \in 1..Len(cs)} = 0..(d.total_chunks - 1)
            /\ d.total_chars = SumTextLen(cs)

\* C4: every persisted document has chunk records with the indices
\* 0 .. total_chunks - 1, each once, and total_chars is the sum of their lengths.
C4_ChunkIndexInvariant == ChunkIndexInvariant(durDocs, durChunks)

\* C5: the INSERT of save_to_cache on a hash that has a document record raises
\* the duplicate-hash error and changes no table.
C5_DuplicateSaveRejected ==
    [][\A t \in Threads :
          (/\ call[t].pc = "insert_doc"
           /\ call'[t].pc \notin {"insert_doc", "failed"}
           /\ HasRecord(docs, call[t].hash))
              => /\ call'[t].pc = "returned"
                 /\ call'[t].result.status = "error"
                 /\ call'[t].result.error = IntegrityError
                 /\ UNCHANGED storeVars]_vars

\* a save has been rejected for its hash being there
C5_Witness ==
    \E t \in Threads : Returned(t) /\ call[t].result.error = IntegrityError

\* C6: load of a hash whose save completed with chunks c_0..c_{n-1} and
\* embeddings e_0..e_{n-1} returns exactly these texts and vectors, in order.
C6_SaveLoadRoundTrip ==
    \A s \in saved :
        (loaded.status # "none" /\ loaded.file_hash = s.hash)
            => /\ loaded.status = "loaded"
               /\ loaded.chunks = s.chunks
               /\ loaded.embeddings = s.embeddings
               /\ loaded.total_chunks = Len(s.chunks)

\* a document of two chunks has been loaded while the chunk table also holds
\* rows of other documents
C6_Witness ==
    /\ loaded.status = "loaded"
    /\ Len(loaded.chunks) = 2
    /\ \E s \in saved : s.hash = loaded.file_hash
    /\ Len(chunks) > 2

\* C7: load succeeds exactly when is_cached is true of the hash; otherwise it
\* fails with the not-found error and returns no data; it never changes the
\* store.
C7_LoadNotFound ==
    [][loaded'.status # "none"
          => /\ UNCHANGED storeVars
             /\ loaded'.status = "loaded" <=> IsDocumentCached(loaded'.file_hash)
             /\ loaded'.status # "loaded"
                   => /\ loaded'.status = "error"
                      /\ loaded'.error = NotFoundError
                      /\ loaded'.chunks = <<>>
                      /\ loaded'.embeddings = <<>>]_vars

\* a load has failed on a hash that a call under way has not inserted yet
C7_Witness ==
    /\ loaded.status = "error"
    /\ \E t \in Threads : call[t].pc = "insert_doc" /\ call[t].hash = loaded.file_hash

\* C8: no document record with total_chunks = 0 is ever stored, and no call
\* returns 'processed' with zero chunks.
C8_ZeroChunksIsFailure ==
    /\ \A i \in 1..Len(docs) : docs[i].total_chunks > 0
    /\ \A i \in 1..Len(durDocs) : durDocs[i].total_chunks > 0
    /\ \A t \in Threads :
           (Returned(t) /\ call[t].result.status = "processed")
               => call[t].result.chunks_count > 0

UnsupportedError == "ValueError: Unsupported file format"

\* C12: a call on a file whose extension is outside {.pdf, .docx, .txt, .md,
\* .rtf} fails with the unsupported-format error in its first step, before it
\* hashes the file, looks the cache up, extracts or writes: the call never
\* gets to these steps, computes no hash, and the store is as it was.
C12_UnsupportedFailsFirst ==
    /\ [](\A t \in Threads :
             call[t].file.ext \notin {"", ".pdf", ".docx", ".txt", ".md", ".rtf"}
                => call[t].pc \notin {"check", "extract", "insert_doc", "insert_chunk"})
    /\ [][\A t \in Threads :
             (/\ call'[t] # call[t]
              /\ call[t].pc \in {"idle", "returned", "failed"}
              /\ call'[t].file.ext \notin {".pdf", ".docx", ".txt", ".md", ".rtf"})
                 => /\ call'[t].pc = "returned"
                    /\ call'[t].result.status = "error"
                    /\ call'[t].result.error = UnsupportedError
                    /\ call'[t].hash = 0
                    /\ UNCHANGED storeVars]_vars

\* a call on an .exe file has failed while the store holds documents and
\* another call is in the middle of its save
C12_Witness ==
    \E t, u \in Threads :
        /\ Returned(t) /\ call[t].result.error = UnsupportedError
        /\ call[t].file.ext = ".exe"
        /\ docs # <<>>
        /\ call[u].pc = "insert_chunk"

(***************************************************************************)
(* Properties of clean_text.                                               *)
(***************************************************************************)
\* C9: clean is idempotent, clean(clean(t)) = clean(t), for both clean_text
\* functions.
C9_CleanIdempotent ==
    /\ cleanPc = "recleaned" => cleanTwice = cleanOut
    /\ cleanPc # "input" => UtilsCleanText(utilOut) = utilOut

\* s occurs in t
Occurs(t, s) == \E i \in 1..Len(t) : OccursAt(t, s, i)

\* t has a paragraph break: an empty line between two lines of text
HasParagraphBreak(t) ==
    \E i \in 2..(Len(t) - 2) :
        /\ t[i] = NL /\ t[i + 1] = NL
        /\ ~IsSpace(t[i - 1]) /\ ~IsSpace(t[i + 2])

CleanShape(in, out) ==
    /\ out # <<>> => ~IsSpace(out[1]) /\ ~IsSpace(out[Len(out)])
    /\ ~Occurs(out, <<SP, SP>>)
    /\ HasParagraphBreak(in) => Occurs(out, <<NL, NL>>)
    /\ ~Occurs(out, <<NL, NL, NL>>)

\* C10: the output of clean has no leading or trailing whitespace, no run of
\* two or more spaces, a double newline for every paragraph break of the
\* input, and never three or more consecutive newlines.
C10_CleanOutputShape ==
    cleanPc # "input" => CleanShape(cleanIn, cleanOut) /\ CleanShape(cleanIn, utilOut)

(***************************************************************************)
(* Properties of the splitter.                                             *)
(***************************************************************************)
RECURSIVE SplitMeasure(_)
\* what is left to do in the frames of the stack: one for the frame's return
\* and, for every character of its pieces to come, two for each level of
\* separators it can still go down
SplitMeasure(stack) ==
    IF stack = <<>> THEN 0
    ELSE 1 + 2 * (Len(Head(stack).newSeps) + 1) * SumLen(Head(stack).splits)
           + SplitMeasure(Tail(stack))

\* C11: for every text longer than the chunk size and every overlap below the
\* chunk size, splitting terminates and every chunk returned is non-empty.
\* Termination by the progress invariant: each step leaves less work to do
\* (a natural number), and a running call always has a step to take.
C11_SplitTerminates ==
    /\ [](split.pc = "running" => split.stack # <<>>)
    /\ [](split.pc = "done" => \A i \in 1..Len(split.result) : split.result[i] # <<>>)
    /\ [][split.pc = "running" => SplitMeasure(split'.stack) < SplitMeasure(split.stack)]_vars

\* a run is over that went through the text with an overlap: its chunks
\* together are longer than the text
C11_Witness ==
    /\ split.pc = "done"
    /\ split.overlap > 0
    /\ Len(split.result) >= 2
    /\ SumLen(split.result) > Len(split.text)

(***************************************************************************)
(* Properties of the extraction.                                           *)
(***************************************************************************)
\* C13: for a .txt, .md or .rtf file the extraction tries utf-8, utf-16,
\* latin-1 and cp1252 in this order and returns the text of the first that
\* decodes the file (here: whenever that text is not empty); it fails if and
\* only if none of them decodes it.
C13_FirstEncodingThatDecodes ==
    (extraction.pc = "done" /\ extraction.file.ext \in {".txt", ".md", ".rtf"})
        => LET b   == extraction.file.bytes
               oks == {i \in 1..Len(Encodings) : Decode(Encodings[i], b).raised = ""}
               i   == CHOOSE k \in oks : \A j \in oks : k <= j
           IN  /\ oks = {} => extraction.error # ""
               /\ (oks # {} /\ Decode(Encodings[i], b).text # <<>>)
                     => /\ extraction.error = ""
                        /\ extraction.encoding = Encodings[i]
                        /\ extraction.text = Decode(Encodings[i], b).text

RECURSIVE ContainsInOrder(_, _)
\* the blocks occur in t one after the other
ContainsInOrder(t, blocks) ==
    \/ blocks = <<>>
    \/ LET p == FirstOccurrence(t, Head(blocks))
       IN  /\ p > 0
           /\ ContainsInOrder(SubSeq(t, p + Len(Head(blocks)), Len(t)), Tail(blocks))

\* C14: when one page of a PDF raises in extraction (and every other page
\* reads well), the document is not aborted and the result has the text of
\* every other page, in page order.
C14_BadPageSkipped ==
    LET pages == extraction.file.pages
        bad   == {n \in 1..Len(pages) : pages[n].fitz = "raises" /\ pages[n].pypdf = "raises"}
        good  == {n \in 1..Len(pages) : pages[n].fitz = "ok" /\ pages[n].pypdf = "ok"}
    IN  (/\ extraction.pc = "done"
         /\ extraction.file.ext = ".pdf"
         /\ Cardinality(bad) = 1
         /\ bad \cup good = 1..Len(pages))
            => /\ extraction.error = ""
               /\ ContainsInOrder(extraction.text,
                      SelectSeq([n \in 1..Len(pages) |->
                                    IF n \in good THEN PageHeader(n) \o pages[n].text ELSE <<>>],
                                LAMBDA x : x # <<>>))

(***************************************************************************)
(* Properties of the RAG engine.                                           *)
(***************************************************************************)
\* C15: ask never raises: whatever the engine's state (no vector store, no
\* chain) and whether retrieval or generation fails, it returns a response
\* with an answer string, a list of sources and a timestamp; on failure the
\* answer reports the error and the sources are empty.
C15_AskNeverRaises ==
    engine.last.called
        => /\ engine.last.raised = ""
           /\ engine.last.answer \in STRING
           /\ DOMAIN engine.last.sources = 1..Len(engine.last.sources)
           /\ engine.last.timestamp \in Nat /\ engine.last.timestamp = engine.now
           /\ (~engine.chain.built \/ engine.last.failure # "")
                 => /\ engine.last.failure # ""
                    /\ engine.last.answer
                           = "Sorry, I encountered an error: " \o engine.last.failure
                    /\ engine.last.sources = <<>>

\* an ask of an engine with a vector store and no chain has answered with
\* the error
C15_Witness ==
    /\ engine.last.called
    /\ engine.vector_store.built /\ ~engine.chain.built
    /\ engine.last.answer = "Sorry, I encountered an error: 'NoneType' object is not callable"

\* C16: the sources of a successful ask are the first min(3, r) of the r
\* chunks retrieved, in retrieval order, numbered from 1; each has the chunk's
\* source tag ('Unknown document' if it has none) and as excerpt the chunk's
\* text if that has at most 200 characters, else its first 200 characters
\* and "...".
C16_SourcesOfAsk ==
    (engine.last.called /\ engine.last.failure = "")
        => LET docs0 == engine.last.retrieved
               srcs  == engine.last.sources
           IN  /\ Len(srcs) = IF Len(docs0) <= 3 THEN Len(docs0) ELSE 3
               /\ \A i \in 1..Len(srcs) :
                      LET t == docs0[i].page_content
                      IN  /\ srcs[i].index = i
                          /\ "source" \in DOMAIN docs0[i].metadata
                                => srcs[i].source = docs0[i].metadata.source
                          /\ "source" \notin DOMAIN docs0[i].metadata
                                => srcs[i].source = "Unknown document"
                          /\ Len(t) <= 200 => srcs[i].content = t
                          /\ Len(t) > 200
                                => /\ Len(srcs[i].content) = 203
                                   /\ \A k \in 1..200 : srcs[i].content[k] = t[k]
                                   /\ \A k \in 201..203 : srcs[i].content[k] = "."

\* four chunks were retrieved and three are sources: one of exactly 200
\* characters, one cut, one without a source tag
C16_Witness ==
    /\ engine.last.called /\ engine.last.failure = ""
    /\ Len(engine.last.retrieved) = 4
    /\ Len(engine.last.sources) = 3
    /\ \E i, j, k \in 1..3 :
           /\ Len(engine.last.sources[i].content) = 200
           /\ Len(engine.last.sources[j].content) = 203
           /\ engine.last.sources[k].source = "Unknown document"

(***************************************************************************)
(* Properties of the summarizer.                                           *)
(***************************************************************************)
\* C17: summarize degrades per piece: for a text that is not blank, split
\* into n pieces, the backend failing, timing out or returning nothing on any
\* of them, summarize returns the n piece results in piece order (joined by
\* blanks, double blanks then made single and the ends stripped), where a
\* failed piece gives its first sentence, the piece up to its first full stop
\* (all of it if it has none) and a full stop, and a successful piece gives
\* the backend's text.
C17_SummarizeDegradesPerPiece ==
    (sumCall.pc = "done" /\ sumCall.op = "summarize" /\ Strip(sumCall.text) # <<>>)
        => LET pieces == SummarySplit(sumCall.text)
               failed(i) == \/ sumCall.responses[i].raised # ""
                            \/ Strip(sumCall.responses[i].text) = <<>>
               stop(p) == CHOOSE k \in 1..(Len(p) + 1) :
                              /\ k = Len(p) + 1 \/ p[k] = "."
                              /\ \A j \in 1..(k - 1) : p[j] # "."
               contribution ==
                   [i \in 1..Len(pieces) |->
                       IF failed(i)
                       THEN SubSeq(pieces[i], 1, stop(pieces[i]) - 1) \o <<".">>
                       ELSE Strip(sumCall.responses[i].text)]
           IN  /\ Len(pieces) >= 1
               /\ Len(sumCall.responses) = Len(pieces)
               /\ sumCall.summary = Strip(ReplaceDoubleSpaces(Join(contribution, <<SP>>)))

\* a text of several pieces was summarized with a piece that failed, and has
\* a full stop before its end, and a piece that succeeded
C17_Witness ==
    /\ sumCall.pc = "done" /\ sumCall.op = "summarize"
    /\ LET pieces == SummarySplit(sumCall.text)
       IN  /\ Len(pieces) >= 2
           /\ \E i, j \in 1..Len(pieces) :
                  /\ sumCall.responses[i].raised = "Timeout"
                  /\ \E k \in 1..(Len(pieces[i]) - 1) : pieces[i][k] = "."
                  /\ GeminiComplete(sumCall.responses[j]) = <<"S">>

\* C18: summarize_with_sections always returns something usable: for a text
\* that is not blank, also when the backend fails or returns nothing, the
\* overall summary is non-empty and so is the summary of every section
\* returned.
C18_SectionSummariesNonEmpty ==
    (sumCall.pc = "done" /\ sumCall.op = "summarize_with_sections"
        /\ Strip(sumCall.text) # <<>>)
        => /\ sumCall.report.overall_summary # <<>>
           /\ \A i \in 1..Len(sumCall.report.sections) :
                  sumCall.report.sections[i].summary # <<>>

\* C19: detection always returns a section: when no line of the text is a
\* header, or no header is followed, up to the next header, by content that
\* is not blank, the result is the one section titled "Document" whose body
\* is the whole text.
C19_DetectReturnsASection ==
    (sumCall.pc = "done" /\ sumCall.op = "_detect_sections")
        => LET lines == SplitOn(sumCall.text, <<NL>>)
               headers == {i \in 1..Len(lines) : IsHeader(lines[i])}
               next(i) == IF \E j \in headers : j > i
                          THEN CHOOSE j \in headers :
                                   j > i /\ \A k \in headers : k > i => j <= k
                          ELSE Len(lines) + 1
               body(i) == Strip(Join(SubSeq(lines, i + 1, next(i) - 1), <<NL>>))
           IN  /\ sumCall.detected # <<>>
               /\ (headers = {} \/ \A i \in headers : body(i) = <<>>)
                     => sumCall.detected
                            = <<[title |-> <<"D", "o", "c", "u", "m", "e", "n", "t">>,
                                 body |-> sumCall.text]>>

\* a text with header lines, none followed by content, came back as the one
\* section "Document"
C19_Witness ==
    /\ sumCall.pc = "done" /\ sumCall.op = "_detect_sections"
    /\ \E i \in 1..Len(SplitOn(sumCall.text, <<NL>>)) :
           IsHeader(SplitOn(sumCall.text, <<NL>>)[i])
    /\ Len(sumCall.detected) = 1
    /\ sumCall.detected[1].title = <<"D", "o", "c", "u", "m", "e", "n", "t">>
    /\ sumCall.detected[1].body = sumCall.text

(***************************************************************************)
(* Properties of the upload handler.                                       *)
(***************************************************************************)
\* C20: per-file isolation in a batch upload: when processing one file of
\* the batch raises, an error is reported and every other file of the batch
\* is still processed, its chunks added to the collected chunk list and to
\* the index.
C20_PerFileIsolation ==
    (batch.pc = "done" /\ \E i \in 1..Len(batch.files) : batch.files[i].outcome = "raises")
        => /\ batch.error # ""
           /\ \A i \in 1..Len(batch.files) :
                  batch.files[i].outcome = "processed"
                      => /\ i <= batch.returned
                         /\ batch.files[i].name \in batch.processed_data
                         /\ \A k \in 1..Len(batch.files[i].chunks) :
                                /\ \E c \in 1..Len(batch.all_chunks) :
                                       batch.all_chunks[c] = batch.files[i].chunks[k]
                                /\ batch.session.rag_engine.built
                                /\ \E c \in 1..Len(batch.session.rag_engine.chunks) :
                                       batch.session.rag_engine.chunks[c]
                                           = batch.files[i].chunks[k]

\* C26: after n calls of ask on an engine total_queries is n, whether the
\* calls answered or returned an error response; build_vector_store,
\* build_chain and get_stats leave the counter as it is, and it never
\* decreases.
C26_QueryCounter ==
    /\ [](engine.total_queries = engine.asks)
    /\ [][/\ engine'.total_queries >= engine.total_queries
          /\ engine'.asks = engine.asks => engine'.total_queries = engine.total_queries]_vars

\* two asks are counted, the last of them an error response, and get_stats
\* has reported the count
C26_Witness ==
    /\ engine.asks = 2 /\ engine.total_queries = 2
    /\ engine.last.called /\ engine.last.failure # ""
    /\ engine.stats.called /\ engine.stats.total_queries = 2

\* C27: the sections returned are in the order of their header lines; the
\* body of each is the stripped text of the lines that are no header between
\* its header line and the next header line or the end of the text; a header
\* whose body is empty or blank gives no section, so every section returned
\* but the fallback "Document" has a body that is not empty.
C27_SectionFlushing ==
    (sumCall.pc = "done" /\ sumCall.op = "_detect_sections")
        => LET lines == SplitOn(sumCall.text, <<NL>>)
               headers == {i \in 1..Len(lines) : IsHeader(lines[i])}
               next(i) == IF \E j \in headers : j > i
                          THEN CHOOSE j \in headers :
                                   j > i /\ \A k \in headers : k > i => j <= k
                          ELSE Len(lines) + 1
               body(i) == Strip(Join(SubSeq(lines, i + 1, next(i) - 1), <<NL>>))
               kept == {i \in headers : body(i) # <<>>}
               \* the header line of the n-th section
               line(n) == CHOOSE i \in kept : Cardinality({j \in kept : j < i}) = n - 1
           IN  kept # {}
                  => /\ Len(sumCall.detected) = Cardinality(kept)
                     /\ \A n \in 1..Len(sumCall.detected) :
                            /\ sumCall.detected[n].title = Strip(lines[line(n)])
                            /\ sumCall.detected[n].body = body(line(n))
                            /\ sumCall.detected[n].body # <<>>

\* two header lines, each followed by content, gave two sections in the
\* order of the lines
C27_Witness ==
    /\ sumCall.pc = "done" /\ sumCall.op = "_detect_sections"
    /\ Len(sumCall.detected) = 2
    /\ sumCall.detected[1].title # sumCall.detected[2].title
    /\ sumCall.detected[1].body # sumCall.detected[2].body

\* C29: detection loses no body text: when it returns sections with header
\* titles, every line of the text that is not blank and not a header is in
\* the body of a section returned, the lines before the first header line
\* included.
C29_NoBodyTextLost ==
    (sumCall.pc = "done" /\ sumCall.op = "_detect_sections")
        => LET lines == SplitOn(sumCall.text, <<NL>>)
               fallback == <<[title |-> <<"D", "o", "c", "u", "m", "e", "n", "t">>,
                              body |-> sumCall.text]>>
           IN  sumCall.detected # fallback
                  => \A i \in 1..Len(lines) :
                         (Strip(lines[i]) # <<>> /\ ~IsHeader(lines[i]))
                             => \E n \in 1..Len(sumCall.detected) :
                                    FirstOccurrence(sumCall.detected[n].body,
                                                    Strip(lines[i])) # 0

\* C24: the configuration of the chunker is validated: with an overlap of
\* the chunk size or more the constructor raises, and no text is ever split
\* with such a splitter.
C24_OverlapValidated ==
    split.overlap >= ChunkSize => split.pc \in {"idle", "new", "rejected"}

(***************************************************************************)
(* Properties of the statistics and the clean-up.                          *)
(***************************************************************************)
\* C21: cleanup completes; afterwards the store holds no chunk whose
\* document is gone.
C21_CleanupCompletes ==
    loaded.status = "cleanup"
        => /\ loaded.error = ""
           /\ \A i \in 1..Len(chunks) :
                  \E j \in 1..Len(docs) : docs[j].id = chunks[i].document_id

\* C22: in every state of the store, the empty one included, the statistics
\* are numbers: the number of document records, the number of chunk records,
\* the sum of total_chars (0 for the empty store) and the chunks per document
\* (0 without documents; compared in hundredths).
C22_StatsOfTheStore ==
    loaded.status = "stats"
        => /\ loaded.total_documents = Len(docs)
           /\ ~loaded.total_chunks.null
           /\ loaded.total_chunks.value = Len(chunks)
           /\ ~loaded.total_characters.null
           /\ loaded.total_characters.value
                  = SumLen([i \in 1..Len(docs) |-> [k \in 1..docs[i].total_chars |-> 0]])
           /\ docs = <<>> => loaded.average_chunks_per_document = 0
           /\ docs # <<>>
                 => \E r \in -1..1 :
                        2 * Len(docs) * loaded.average_chunks_per_document
                            = 200 * Len(chunks) + r * Len(docs)

\* C25: no step of process_document, is_document_cached,
\* load_cached_document, get_processing_stats or cleanup_cache changes or
\* deletes a committed document row or a committed chunk row: each is still
\* in the store, and in the connection's view of it, after the step.
C25_PersistedRecordsKept ==
    [][/\ \A i \in 1..Len(durDocs) :
              /\ \E j \in 1..Len(durDocs') : durDocs'[j] = durDocs[i]
              /\ \E j \in 1..Len(docs') : docs'[j] = durDocs[i]
       /\ \A i \in 1..Len(durChunks) :
              /\ \E j \in 1..Len(durChunks') : durChunks'[j] = durChunks[i]
              /\ \E j \in 1..Len(chunks') : chunks'[j] = durChunks[i]]_vars

\* two documents are committed, the second by a call that ran with the first
\* in the store, and the statistics were read after it
C25_Witness ==
    /\ Len(durDocs) >= 2
    /\ durChunks # <<>>
    /\ loaded.status = "stats"

\* C28: of two overlapping calls on files with the same bytes neither fails
\* on the store's uniqueness rule, and a call returns 'cached' only when the
\* document row and all of its chunk rows are committed.
C28_ConcurrentDuplicates ==
    \A t \in Threads :
        call[t].pc = "returned"
            => /\ call[t].result.error
                     # "IntegrityError: UNIQUE constraint failed: documents.file_hash"
               /\ call[t].result.status = "cached"
                     => \E i \in 1..Len(durDocs) :
                            /\ durDocs[i].file_hash = call[t].result.file_hash
                            /\ Cardinality({j \in 1..Len(durChunks) :
                                   durChunks[j].document_id = durDocs[i].id})
                                 = durDocs[i].total_chunks

(***************************************************************************)
(* Properties of signup and login.                                         *)
(***************************************************************************)
\* C30: at most one user record per email, whatever the interleaving of the
\* signup requests.
C30_OneRecordPerEmail ==
    \A i, j \in 1..Len(auth.userInfo) :
        auth.userInfo[i].email = auth.userInfo[j].email => i = j

\* C23: after a signup for an email that had no record has succeeded, a
\* record with its email and username is in the collection and its stored
\* password is not the plaintext; a login with that email and password
\* answers 200 with that user's id, username and email; a login with another
\* password for that email, or with an email that has no record, answers 401.
C23_SignupThenLogin ==
    /\ [](\A s \in auth.signups :
              s.fresh => \E i \in 1..Len(auth.userInfo) :
                             /\ auth.userInfo[i]._id = s.id
                             /\ auth.userInfo[i].email = s.email
                             /\ auth.userInfo[i].username = s.username
                             /\ auth.userInfo[i].password # s.password)
    /\ [][\A r \in Requests :
              LET q == auth'.request[r]
              IN  (q # auth.request[r] /\ q.op = "login")
                      => /\ \A s \in auth.signups :
                                (s.fresh /\ s.email = q.email)
                                    => IF s.password = q.password
                                       THEN /\ q.response.status_code = 200
                                            /\ q.response.user_data
                                                 = [user_id |-> ToString(s.id),
                                                    username |-> s.username,
                                                    email |-> s.email]
                                       ELSE q.response.status_code = 401
                         /\ FindOne(auth.userInfo, q.email) = <<>>
                               => q.response.status_code = 401]_vars

\* one login has succeeded and one, for a registered email, was rejected
C23_Witness ==
    /\ \E r \in Requests :
          /\ auth.request[r].op = "login"
          /\ auth.request[r].response.status_code = 200
    /\ \E r \in Requests :
          /\ auth.request[r].op = "login"
          /\ auth.request[r].response.status_code = 401
          /\ FindOne(auth.userInfo, auth.request[r].email) # <<>>

====
